---- MODULE Spec2Model ----
(***************************************************************************)
(* Provenance store (provo): the relational store of fragments, decisions, *)
(* assumptions and fragment links (storage/database.py), the fragment      *)
(* routes and their background enrichment tasks (api/routes/fragments.py). *)
(*                                                                         *)
(* Identifiers are uuid4 values in the code; here a fresh identifier is    *)
(* the next value of a counter, so an identifier is never reused.          *)
(* Strengths, similarities and distances are in hundredths (0.75 is 75).   *)
(***************************************************************************)
EXTENDS Integers, Sequences, FiniteSets, Bags, TLC

\* ---------------------------------------------------------------- bounds
MaxFragments == 2
MaxTasks == 2
MaxLinks == 2
MaxDecisions == 1
MaxAssumptions == 1
MaxCandidates == 1
MaxResults == 2
MaxRunLinks == 3
MaxExtracted == 2
MaxRaw == 2
MaxCacheSize == 2
MaxOrder == 4
MaxListed == 2
MaxRuns == 2
MaxUpdates == 2
MaxEmbeds == 2
MaxBatch == 2
MaxBusy == 1

\* ------------------------------------------------------ program constants
\* SQL NULL / Python None
NULL == -1
\* fragments.py: SIMILARITY_THRESHOLD = 0.75
SIMILARITY_THRESHOLD == 75
\* fragments.py: search_similar(limit=10)
SEARCH_LIMIT == 10

\* models.py LinkType, in declaration order
LinkType == <<"relates_to", "references", "follows", "contradicts", "invalidates">>
RELATES_TO == LinkType[1]
\* the kinds a link request draws from
LinkKinds == {LinkType[1], LinkType[4]}

FragmentIds == 1..MaxFragments
\* one identifier past the end is never created: a fragment id that is not in the store
AnyFragmentId == 1..(MaxFragments + 1)
AnyAssumptionId == 1..(MaxAssumptions + 1)
\* request.project of a create request
ProjectValues == {NULL}
\* distances the vector index reports (cosine distance, 0..2)
Distances == {0, 25, 30, 150}
\* strengths of a manual link request (schemas.py: 0 <= strength <= 1)
Strengths == {40}

VARIABLES
    fragments,        \* table fragments: set of rows
    decisions,        \* table decisions: set of rows
    assumptions,      \* table assumptions: set of rows
    fragment_links,   \* table fragment_links: set of rows
    index,            \* vector store: ids that have an embedding
    request,          \* request[f]: position of the create request of fragment f, or the
                      \* answer it ended with when a call raised
    deleting,         \* delete requests between the row's removal and the embedding's
    tasks,            \* background tasks and manual link requests in flight (a bag)
    nextFragmentId, nextDecisionId, nextAssumptionId, nextLinkId,
    last,             \* the last direct call of a Database method and what it returned
    embedding_cache,  \* an EmbeddingCache: its fields _cache and _access_order
    recency           \* the cached keys, from the least to the most recently used

vars == <<fragments, decisions, assumptions, fragment_links, index, request, deleting, tasks,
          nextFragmentId, nextDecisionId, nextAssumptionId, nextLinkId, last,
          embedding_cache, recency>>

ids == <<nextFragmentId, nextDecisionId, nextAssumptionId, nextLinkId>>

embeddings == <<embedding_cache, recency>>

\* the tables of the store
Tables == <<fragments, decisions, assumptions, fragment_links>>

\* ------------------------------------------------------------ the schema
FragmentRows(rows) == {r.id : r \in rows}

\* PRAGMA foreign_keys left off: no reference is checked
ForeignKeyOk_off(frs, fid) == TRUE

\* PRAGMA foreign_keys = ON: REFERENCES fragments(id)
ForeignKeyOk(frs, fid) == fid \in FragmentRows(frs)

\* SELECT * FROM fragments WHERE id = ?  the rows fetched: none when the result is None
get_fragment(frs, fid) == {r \in frs : r.id = fid}

\* ON DELETE CASCADE of decisions.fragment_id
CascadeDecisions(rows, fid) == {d \in rows : d.fragment_id # fid}

\* ON DELETE CASCADE declared on invalidated_by as well
CascadeAssumptions_both(rows, fid) ==
    {a \in rows : a.fragment_id # fid /\ a.invalidated_by # fid}

\* ON DELETE CASCADE of assumptions.fragment_id, ON DELETE SET NULL of invalidated_by
CascadeAssumptions(rows, fid) ==
    {IF a.invalidated_by = fid THEN [a EXCEPT !.invalidated_by = NULL] ELSE a :
        a \in {x \in rows : x.fragment_id # fid}}

\* a cascade declared on source_id alone
CascadeLinks_source_only(rows, fid) == {l \in rows : l.source_id # fid}

\* ON DELETE CASCADE of fragment_links.source_id and target_id
CascadeLinks(rows, fid) == {l \in rows : l.source_id # fid /\ l.target_id # fid}

\* -------------------------------------------------------- tasks in flight
\* tasks is a bag: two tasks in the same position are two tasks
Running == BagToSet(tasks)
HasFreeSlot == BagCardinality(tasks) < MaxTasks
Spawn(bag, task) == bag (+) SetToBag({task})
Retire(bag, task) == bag (-) SetToBag({task})
Step(bag, task, next) == Spawn(Retire(bag, task), next)

\* a background task returns after its loop, or from its except clause, where the error is
\* logged and not raised: either way it leaves the bag
Finished(t) ==
    \/ t.pc = "failed"
    \/ t.kind = "link" /\ t.results = {}
    \/ t.kind \in {"extract_decisions", "extract_assumptions"} /\ t.items = <<>>
Start(bag, task) == IF Finished(task) THEN bag ELSE Spawn(bag, task)
Continue(bag, task, next) == IF Finished(next) THEN Retire(bag, task) ELSE Step(bag, task, next)
\* tasks that do not wait for add_task
Scheduled_always(f) == TRUE

\* background_tasks.add_task ran for fragment f
Scheduled(f) == request[f] = "scheduled"

\* ---------------------------------------------------------------- Init
Init ==
    /\ fragments = {}
    /\ decisions = {}
    /\ assumptions = {}
    /\ fragment_links = {}
    /\ index = {}
    /\ request = [f \in FragmentIds |-> "none"]
    /\ tasks = EmptyBag
    /\ deleting = {}
    /\ nextFragmentId = 1
    /\ nextDecisionId = 1
    /\ nextAssumptionId = 1
    /\ nextLinkId = 1
    /\ last = [op |-> "none"]
    /\ embedding_cache = [_cache |-> <<>>, _access_order |-> <<>>]
    /\ recency = <<>>

\* ------------------------------------------------------ Database.create_fragment
\* route create_fragment, first await: the row is inserted and committed
CreateFragment ==
    /\ nextFragmentId <= MaxFragments
    /\ \E p \in ProjectValues :
        fragments' = fragments \cup {[id |-> nextFragmentId, project |-> p, summary |-> NULL]}
    /\ request' = [request EXCEPT ![nextFragmentId] = "stored"]
    /\ nextFragmentId' = nextFragmentId + 1
    /\ UNCHANGED <<embeddings, decisions, assumptions, fragment_links, index, deleting, tasks,
                   nextDecisionId, nextAssumptionId, nextLinkId, last>>

\* ------------------------------------------------------ Database.delete_fragment
\* DELETE FROM fragments WHERE id = ?  with the cascades of the schema, one statement
delete_fragment(fid) ==
    /\ fragments' = {r \in fragments : r.id # fid}
    /\ decisions' = CascadeDecisions(decisions, fid)
    /\ assumptions' = CascadeAssumptions(assumptions, fid)
    /\ fragment_links' = CascadeLinks(fragment_links, fid)

\* route delete_fragment, first await: 404 when no row was deleted (rowcount = 0),
\* else the request goes on to the vector store
DeleteFragment ==
    \E fid \in AnyFragmentId :
        /\ delete_fragment(fid)
        /\ deleting' = IF ForeignKeyOk(fragments, fid) THEN deleting \cup {fid} ELSE deleting
        /\ UNCHANGED <<embeddings, index, request, tasks, ids, last>>

\* ------------------------------------------------------ VectorStore
\* VectorStore.add_embedding: collection.upsert of one id
add_embedding(idx, fragment_id) == idx \cup {fragment_id}

\* VectorStore.add_embeddings_batch: nothing for no items, else one upsert of all the ids
add_embeddings_batch(idx, items) == IF items = {} THEN idx ELSE idx \cup items

\* VectorStore.delete_embedding: False when the id is not in the collection, else the id
\* is deleted and the answer is True
delete_embedding(idx, fragment_id) ==
    IF fragment_id \notin idx
    THEN [index |-> idx, result |-> FALSE]
    ELSE [index |-> idx \ {fragment_id}, result |-> TRUE]

\* VectorStore.delete_embeddings_batch: the number of the ids that are in the collection,
\* all of them deleted
delete_embeddings_batch(idx, fragment_ids) ==
    LET count == Cardinality(idx \cap fragment_ids) IN
    [index |-> IF count > 0 THEN idx \ fragment_ids ELSE idx, result |-> count]

\* VectorStore.reset: the collection is deleted, the next use creates it empty
reset(idx) == {}

\* VectorStore.count
count(idx) == Cardinality(idx)

\* the lists of ids a batch call is given: distinct ids, in any order
IdBatches == SUBSET AnyFragmentId

\* VectorStore.add_embedding called directly
CallAddEmbedding ==
    \E fragment_id \in AnyFragmentId :
        /\ index' = add_embedding(index, fragment_id)
        /\ last' = [op |-> "add_embedding", fragment_ids |-> {fragment_id},
                    result |-> NULL, count |-> count(index')]
        /\ UNCHANGED <<Tables, request, deleting, tasks, ids, embeddings>>

\* VectorStore.add_embeddings_batch called directly
CallAddEmbeddingsBatch ==
    \E items \in IdBatches :
        /\ index' = add_embeddings_batch(index, items)
        /\ last' = [op |-> "add_embeddings_batch", fragment_ids |-> items,
                    result |-> NULL, count |-> count(index')]
        /\ UNCHANGED <<Tables, request, deleting, tasks, ids, embeddings>>

\* VectorStore.delete_embedding called directly
CallDeleteEmbedding ==
    \E fragment_id \in AnyFragmentId :
        LET call == delete_embedding(index, fragment_id) IN
        /\ index' = call.index
        /\ last' = [op |-> "delete_embedding", fragment_ids |-> {fragment_id},
                    result |-> call.result, count |-> count(index')]
        /\ UNCHANGED <<Tables, request, deleting, tasks, ids, embeddings>>

\* VectorStore.delete_embeddings_batch called directly
CallDeleteEmbeddingsBatch ==
    \E fragment_ids \in IdBatches :
        LET call == delete_embeddings_batch(index, fragment_ids) IN
        /\ index' = call.index
        /\ last' = [op |-> "delete_embeddings_batch", fragment_ids |-> fragment_ids,
                    result |-> call.result, count |-> count(index')]
        /\ UNCHANGED <<Tables, request, deleting, tasks, ids, embeddings>>

\* VectorStore.reset called directly
CallReset ==
    /\ index' = reset(index)
    /\ last' = [op |-> "reset", fragment_ids |-> {}, result |-> NULL,
                count |-> count(index')]
    /\ UNCHANGED <<Tables, request, deleting, tasks, ids, embeddings>>

\* route delete_fragment, second await: VectorStore.delete_embedding returns and the
\* route answers 204, or it raises and the route, which has no handler around the call,
\* ends with the exception (500): the row is deleted and the index is as it was
DeleteEmbedding ==
    \E fid \in deleting :
        /\ \/ index' = delete_embedding(index, fid).index
           \/ UNCHANGED index
        /\ deleting' = deleting \ {fid}
        /\ UNCHANGED <<embeddings, fragments, decisions, assumptions, fragment_links, request, tasks,
                       ids, last>>

\* ------------------------------------------------------ background extraction
\* the rows an extractor builds for fragment f: Decision(fragment_id=f), fresh uuid each
NewDecisions(f, n) ==
    [i \in 1..n |-> [id |-> nextDecisionId + i - 1, fragment_id |-> f]]

\* Assumption(fragment_id=f, still_valid=None, invalidated_by=None), fresh uuid each
NewAssumptions(f, n) ==
    [i \in 1..n |-> [id |-> nextAssumptionId + i - 1, fragment_id |-> f,
                     still_valid |-> NULL, invalidated_by |-> NULL]]

\* extract_decisions_background up to the store loop: the extractor raises (provider
\* unreachable) or returns the kept candidates (none when the output does not parse)
ExtractDecisions ==
    \E f \in FragmentIds :
        /\ Scheduled(f)
        /\ HasFreeSlot
        /\ \/ /\ tasks' = Start(tasks,
                    [kind |-> "extract_decisions", fragment_id |-> f, pc |-> "failed",
                     items |-> <<>>])
              /\ UNCHANGED nextDecisionId
           \/ \E n \in 0..MaxCandidates :
                /\ nextDecisionId + n <= MaxDecisions + 1
                /\ tasks' = Start(tasks,
                      [kind |-> "extract_decisions", fragment_id |-> f, pc |-> "store",
                       items |-> NewDecisions(f, n)])
                /\ nextDecisionId' = nextDecisionId + n
        /\ UNCHANGED <<embeddings, fragments, decisions, assumptions, fragment_links, index, request,
                       deleting, nextFragmentId, nextAssumptionId, nextLinkId, last>>

\* an insert that skips a decision the fragment already has
create_decision_unique(rows, decision) ==
    IF \E r \in rows : r.fragment_id = decision.fragment_id /\ r.what = decision.what
    THEN rows
    ELSE rows \cup {decision}

\* Database.create_decision: INSERT INTO decisions, fragment_id REFERENCES fragments(id)
create_decision(rows, decision) == rows \cup {decision}

\* one iteration of the store loop of extract_decisions_background
StoreDecision ==
    \E t \in Running :
        /\ t.kind = "extract_decisions"
        /\ t.pc = "store"
        /\ t.items # <<>>
        /\ LET d == Head(t.items) IN
            IF ForeignKeyOk(fragments, d.fragment_id)
            THEN /\ decisions' = create_decision(decisions, d)
                 /\ tasks' = Continue(tasks, t, [t EXCEPT !.items = Tail(@)])
            ELSE /\ decisions' = decisions
                 /\ tasks' = Continue(tasks, t, [t EXCEPT !.pc = "failed"])
        /\ UNCHANGED <<embeddings, fragments, assumptions, fragment_links, index, request, deleting, ids,
                       last>>

\* extract_assumptions_background up to the store loop
ExtractAssumptions ==
    \E f \in FragmentIds :
        /\ Scheduled(f)
        /\ HasFreeSlot
        /\ \/ /\ tasks' = Start(tasks,
                    [kind |-> "extract_assumptions", fragment_id |-> f, pc |-> "failed",
                     items |-> <<>>])
              /\ UNCHANGED nextAssumptionId
           \/ \E n \in 0..MaxCandidates :
                /\ nextAssumptionId + n <= MaxAssumptions + 1
                /\ tasks' = Start(tasks,
                      [kind |-> "extract_assumptions", fragment_id |-> f, pc |-> "store",
                       items |-> NewAssumptions(f, n)])
                /\ nextAssumptionId' = nextAssumptionId + n
        /\ UNCHANGED <<embeddings, fragments, decisions, assumptions, fragment_links, index, request,
                       deleting, nextFragmentId, nextDecisionId, nextLinkId, last>>

\* Database.create_assumption: INSERT INTO assumptions
create_assumption(rows, assumption) == rows \cup {assumption}

\* the values of the still_valid column: NULL (unknown), 1 (valid), 0 (invalid)
Validity == {NULL, 0, 1}

\* the foreign keys of an assumptions row: fragment_id, and invalidated_by when not NULL
AssumptionKeysOk(frs, a) ==
    /\ ForeignKeyOk(frs, a.fragment_id)
    /\ a.invalidated_by = NULL \/ ForeignKeyOk(frs, a.invalidated_by)

\* one iteration of the store loop of extract_assumptions_background
StoreAssumption ==
    \E t \in Running :
        /\ t.kind = "extract_assumptions"
        /\ t.pc = "store"
        /\ t.items # <<>>
        /\ LET a == Head(t.items) IN
            IF AssumptionKeysOk(fragments, a)
            THEN /\ assumptions' = create_assumption(assumptions, a)
                 /\ tasks' = Continue(tasks, t, [t EXCEPT !.items = Tail(@)])
            ELSE /\ assumptions' = assumptions
                 /\ tasks' = Continue(tasks, t, [t EXCEPT !.pc = "failed"])
        /\ UNCHANGED <<embeddings, fragments, decisions, fragment_links, index, request, deleting, ids,
                       last>>

\* ------------------------------------------------------ assumption lifecycle (direct calls)
AssumptionRows(rows) == {a.id : a \in rows}

\* a method that returns True whatever the rowcount
Returned_always(rows, id) == "true"

\* return cursor.rowcount > 0, for a statement with WHERE id = ?
Returned(rows, id) == IF \E r \in rows : r.id = id THEN "true" ELSE "false"

\* an UPDATE that sets still_valid = 0 and forgets invalidated_by
invalidate_assumption_validity_only(rows, assumption_id, invalidated_by) ==
    {IF a.id = assumption_id THEN [a EXCEPT !.still_valid = 0] ELSE a : a \in rows}

\* UPDATE assumptions SET still_valid = 0, invalidated_by = ? WHERE id = ?
invalidate_assumption(rows, assumption_id, invalidated_by) ==
    {IF a.id = assumption_id
        THEN [a EXCEPT !.still_valid = 0, !.invalidated_by = invalidated_by]
        ELSE a : a \in rows}

\* an UPDATE whose new invalidated_by is not checked against fragments
InvalidateKeysOk_off(frs, rows, assumption_id, invalidated_by) == TRUE

\* the statement fails as a whole when a row it updated breaks a foreign key
InvalidateKeysOk(frs, rows, assumption_id, invalidated_by) ==
    assumption_id \in AssumptionRows(rows) => ForeignKeyOk(frs, invalidated_by)

\* Database.invalidate_assumption: returns rowcount > 0, or raises IntegrityError
CallInvalidateAssumption ==
    \E assumption_id \in AnyAssumptionId, invalidated_by \in AnyFragmentId :
        /\ IF InvalidateKeysOk(fragments, assumptions, assumption_id, invalidated_by)
           THEN /\ assumptions' = invalidate_assumption(assumptions, assumption_id,
                                                       invalidated_by)
                /\ last' = [op |-> "invalidate_assumption", id |-> assumption_id,
                            by |-> invalidated_by,
                            result |-> Returned(assumptions, assumption_id)]
           ELSE /\ assumptions' = assumptions
                /\ last' = [op |-> "invalidate_assumption", id |-> assumption_id,
                            by |-> invalidated_by, result |-> "IntegrityError"]
        /\ UNCHANGED <<embeddings, fragments, decisions, fragment_links, index, request, deleting,
                       tasks, ids>>

\* an UPDATE that binds `still_valid or None`: False is written as NULL
update_assumption_validity_or_none(rows, assumption_id, still_valid) ==
    {IF a.id = assumption_id
        THEN [a EXCEPT !.still_valid = IF still_valid THEN 1 ELSE NULL]
        ELSE a : a \in rows}

\* an UPDATE restricted to WHERE still_valid IS NULL: a decided assumption is kept
update_assumption_validity_once(rows, assumption_id, still_valid) ==
    {IF a.id = assumption_id /\ a.still_valid = NULL
        THEN [a EXCEPT !.still_valid = IF still_valid THEN 1 ELSE 0]
        ELSE a : a \in rows}

\* UPDATE assumptions SET still_valid = ? WHERE id = ?    (1 if still_valid else 0)
update_assumption_validity(rows, assumption_id, still_valid) ==
    {IF a.id = assumption_id
        THEN [a EXCEPT !.still_valid = IF still_valid THEN 1 ELSE 0]
        ELSE a : a \in rows}

\* Database.update_assumption_validity: returns rowcount > 0
CallUpdateAssumptionValidity ==
    \E assumption_id \in AnyAssumptionId, still_valid \in BOOLEAN :
        /\ assumptions' = update_assumption_validity(assumptions, assumption_id, still_valid)
        /\ last' = [op |-> "update_assumption_validity", id |-> assumption_id,
                    value |-> still_valid,
                    result |-> Returned(assumptions, assumption_id)]
        /\ UNCHANGED <<embeddings, fragments, decisions, fragment_links, index, request, deleting,
                       tasks, ids>>

\* ------------------------------------------------------ fragment links
SameTriple(a, b) ==
    /\ a.source_id = b.source_id
    /\ a.target_id = b.target_id
    /\ a.link_type = b.link_type

\* a plain INSERT into a table without the UNIQUE constraint
create_link_insert(rows, link) == rows \cup {link}

\* INSERT ... ON CONFLICT(source_id, target_id, link_type) DO UPDATE SET strength: the
\* stored row keeps its id
create_link_update(rows, link) ==
    IF \E r \in rows : SameTriple(r, link)
    THEN {IF SameTriple(r, link) THEN [r EXCEPT !.strength = link.strength] ELSE r :
            r \in rows}
    ELSE rows \cup {link}

\* INSERT OR REPLACE INTO fragment_links: the rows that conflict with the new row on the
\* primary key or on UNIQUE(source_id, target_id, link_type) are deleted, then it is inserted
create_link(rows, link) ==
    {r \in rows : r.id # link.id /\ ~SameTriple(r, link)} \cup {link}

\* the rows INSERT OR REPLACE deletes for the new row
Conflicts(rows, link) == {r \in rows : r.id = link.id \/ SameTriple(r, link)}

\* the foreign keys of a fragment_links row
LinkKeysOk(frs, link) ==
    /\ ForeignKeyOk(frs, link.source_id)
    /\ ForeignKeyOk(frs, link.target_id)

\* FragmentLink(source_id, target_id, link_type, strength), id = uuid4()
FragmentLink(source_id, target_id, link_type, strength) ==
    [id |-> nextLinkId, source_id |-> source_id, target_id |-> target_id,
     link_type |-> link_type, strength |-> strength]

\* ------------------------------------------------------ linking
Min(a, b) == IF a <= b THEN a ELSE b

\* VectorStore.search_similar(limit): the ids of the results, the nearest `limit` entries
\* of the index (all of it when it holds no more than that)
SearchResults(idx, limit) ==
    {S \in SUBSET idx : Cardinality(S) = Min(Cardinality(idx), limit)}

\* search.py cosine_distance_to_similarity: max(0.0, min(1.0, 1.0 - distance))
cosine_distance_to_similarity(distance) ==
    LET similarity == 100 - distance IN
    IF similarity < 0 THEN 0 ELSE IF similarity > 100 THEN 100 ELSE similarity

\* similarity = 1.0 - result.distance
Similarity(distance) == 100 - distance

\* the loop without its second `continue`: the self test alone
ShouldLink_self_only(fragment_uuid, result) == result.fragment_id # fragment_uuid

\* the loop without its first `continue`: the threshold test alone
ShouldLink_threshold_only(fragment_uuid, result) ==
    ~(Similarity(result.distance) < SIMILARITY_THRESHOLD)

\* the two `continue` tests of the loop of link_similar_fragments_background
ShouldLink(fragment_uuid, result) ==
    /\ result.fragment_id # fragment_uuid
    /\ ~(Similarity(result.distance) < SIMILARITY_THRESHOLD)

\* link_similar_fragments_background up to its loop: the search raises or returns results;
\* the task keeps the ids it has not iterated over yet
LinkSearch ==
    \E f \in FragmentIds :
        /\ Scheduled(f)
        /\ HasFreeSlot
        /\ \/ tasks' = Start(tasks,
                  [kind |-> "link", fragment_id |-> f, pc |-> "failed", results |-> {}])
           \/ \E results \in SearchResults(index, SEARCH_LIMIT) :
                tasks' = Start(tasks,
                  [kind |-> "link", fragment_id |-> f, pc |-> "loop", results |-> results])
        /\ UNCHANGED <<embeddings, fragments, decisions, assumptions, fragment_links, index, request,
                       deleting, ids, last>>

\* one iteration of the loop of link_similar_fragments_background, over the next result
\* and the distance the index reported for it
LinkIteration ==
    \E t \in Running :
        /\ t.kind = "link"
        /\ t.pc = "loop"
        /\ \E result \in [fragment_id : t.results, distance : Distances] :
            LET link == FragmentLink(t.fragment_id, result.fragment_id, RELATES_TO,
                                     Similarity(result.distance))
                rest == [t EXCEPT !.results = @ \ {result.fragment_id}]
            IN
            IF ~ShouldLink(t.fragment_id, result)
            THEN /\ tasks' = Continue(tasks, t, rest)
                 /\ UNCHANGED <<embeddings, fragment_links, nextLinkId>>
            ELSE /\ nextLinkId <= MaxLinks
                 /\ nextLinkId' = nextLinkId + 1
                 /\ IF LinkKeysOk(fragments, link)
                    THEN /\ fragment_links' = create_link(fragment_links, link)
                         /\ tasks' = Continue(tasks, t, rest)
                    ELSE /\ fragment_links' = fragment_links
                         /\ tasks' = Continue(tasks, t, [t EXCEPT !.pc = "failed"])
        /\ UNCHANGED <<embeddings, fragments, decisions, assumptions, index, request, deleting,
                       nextFragmentId, nextDecisionId, nextAssumptionId, last>>

\* ------------------------------------------------------ manual link request
\* route create_fragment_link up to its first check: 404 when the source is missing
RequestLink ==
    \E source_id \in AnyFragmentId :
        /\ HasFreeSlot
        /\ tasks' = IF get_fragment(fragments, source_id) = {}
                    THEN tasks
                    ELSE Spawn(tasks, [kind |-> "create_fragment_link",
                                       source_id |-> source_id, pc |-> "check_target"])
        /\ UNCHANGED <<embeddings, fragments, decisions, assumptions, fragment_links, index, request,
                       deleting, ids, last>>

\* route create_fragment_link, second check, of the request's target_id: 404 when the
\* target is missing
CheckTarget ==
    \E t \in Running, target_id \in AnyFragmentId :
        /\ t.kind = "create_fragment_link"
        /\ t.pc = "check_target"
        /\ tasks' = IF get_fragment(fragments, target_id) = {}
                    THEN Retire(tasks, t)
                    ELSE Step(tasks, t, [kind |-> "create_fragment_link",
                                         source_id |-> t.source_id,
                                         target_id |-> target_id, pc |-> "create"])
        /\ UNCHANGED <<embeddings, fragments, decisions, assumptions, fragment_links, index, request,
                       deleting, ids, last>>

\* route create_fragment_link, db.create_link with the request's link_type and strength:
\* 201, or the store's error propagates and nothing is written
CreateLink ==
    \E t \in Running :
        /\ t.kind = "create_fragment_link"
        /\ t.pc = "create"
        /\ nextLinkId <= MaxLinks
        /\ \E link_type \in LinkKinds, strength \in Strengths :
            LET link == FragmentLink(t.source_id, t.target_id, link_type, strength) IN
                fragment_links' = IF LinkKeysOk(fragments, link)
                                  THEN create_link(fragment_links, link)
                                  ELSE fragment_links
        /\ nextLinkId' = nextLinkId + 1
        /\ tasks' = Retire(tasks, t)
        /\ UNCHANGED <<embeddings, fragments, decisions, assumptions, index, request, deleting,
                       nextFragmentId, nextDecisionId, nextAssumptionId, last>>

\* ------------------------------------------------------ direct calls of the store
\* strengths a caller of Database.create_link passes
AnyStrength == Strengths \cup {100}

\* how many rows of each dependent table name fragment fid as owner, source or target,
\* and how many assumptions of other fragments name it as their invalidator
Dependents(fid) ==
    [decisions |-> Cardinality({d \in decisions : d.fragment_id = fid}),
     assumptions |-> Cardinality({a \in assumptions : a.fragment_id = fid}),
     links |-> Cardinality({l \in fragment_links : l.source_id = fid \/ l.target_id = fid}),
     invalidated |-> Cardinality({a \in assumptions :
                                    a.invalidated_by = fid /\ a.fragment_id # fid})]

\* Database.delete_fragment called directly: returns rowcount > 0; `cascaded` counts the
\* dependent rows the statement removed with the fragment
CallDeleteFragment ==
    \E fid \in AnyFragmentId :
        /\ delete_fragment(fid)
        /\ last' = [op |-> "delete_fragment", id |-> fid,
                    cascaded |-> Dependents(fid),
                    result |-> Returned(fragments, fid)]
        /\ UNCHANGED <<embeddings, index, request, deleting, tasks, ids>>

\* Database.create_decision called directly with Decision(fragment_id=...)
CallCreateDecision ==
    \E fid \in AnyFragmentId :
        /\ nextDecisionId <= MaxDecisions
        /\ nextDecisionId' = nextDecisionId + 1
        /\ LET d == NewDecisions(fid, 1)[1] IN
            IF ForeignKeyOk(fragments, d.fragment_id)
            THEN /\ decisions' = create_decision(decisions, d)
                 /\ last' = [op |-> "create_decision", id |-> d.id, result |-> "ok"]
            ELSE /\ decisions' = decisions
                 /\ last' = [op |-> "create_decision", id |-> d.id,
                             result |-> "IntegrityError"]
        /\ UNCHANGED <<embeddings, fragments, assumptions, fragment_links, index, request, deleting,
                       tasks, nextFragmentId, nextAssumptionId, nextLinkId>>

\* Database.create_assumption called directly with Assumption(fragment_id=...,
\* still_valid=...): None is stored as NULL, True as 1, False as 0
CreateAssumptionCall(max) ==
    \E fid \in AnyFragmentId, still_valid \in Validity :
        /\ nextAssumptionId <= max
        /\ nextAssumptionId' = nextAssumptionId + 1
        /\ LET a == [NewAssumptions(fid, 1)[1] EXCEPT !.still_valid = still_valid] IN
            IF AssumptionKeysOk(fragments, a)
            THEN /\ assumptions' = create_assumption(assumptions, a)
                 /\ last' = [op |-> "create_assumption", id |-> a.id, result |-> "ok"]
            ELSE /\ assumptions' = assumptions
                 /\ last' = [op |-> "create_assumption", id |-> a.id,
                             result |-> "IntegrityError"]
        /\ UNCHANGED <<embeddings, fragments, decisions, fragment_links, index, request, deleting,
                       tasks, nextFragmentId, nextDecisionId, nextLinkId>>

CallCreateAssumption == CreateAssumptionCall(MaxAssumptions)

\* Database.create_link called directly with FragmentLink(...)
CallCreateLink ==
    \E source_id \in AnyFragmentId, target_id \in AnyFragmentId,
       link_type \in LinkKinds, strength \in AnyStrength :
        /\ nextLinkId <= MaxLinks
        /\ nextLinkId' = nextLinkId + 1
        /\ LET link == FragmentLink(source_id, target_id, link_type, strength) IN
            IF LinkKeysOk(fragments, link)
            THEN /\ fragment_links' = create_link(fragment_links, link)
                 /\ last' = [op |-> "create_link", id |-> link.id,
                             replaced |-> {r.id : r \in Conflicts(fragment_links, link)},
                             result |-> "ok"]
            ELSE /\ fragment_links' = fragment_links
                 /\ last' = [op |-> "create_link", id |-> link.id, replaced |-> {},
                             result |-> "IntegrityError"]
        /\ UNCHANGED <<embeddings, fragments, decisions, assumptions, index, request, deleting,
                       tasks, nextFragmentId, nextDecisionId, nextAssumptionId>>

\* Database.create_fragment called directly
CallCreateFragment ==
    /\ nextFragmentId <= MaxFragments
    /\ \E p \in ProjectValues :
        fragments' = fragments \cup {[id |-> nextFragmentId, project |-> p, summary |-> NULL]}
    /\ nextFragmentId' = nextFragmentId + 1
    /\ last' = [op |-> "create_fragment", id |-> nextFragmentId, result |-> "ok"]
    /\ UNCHANGED <<embeddings, decisions, assumptions, fragment_links, index, request, deleting, tasks,
                   nextDecisionId, nextAssumptionId, nextLinkId>>

\* ------------------------------------------------------ a linking run, called directly
\* a task whose except clause raises again
background_result_reraise(raised) == IF raised THEN "raised" ELSE "returned"

\* `except Exception as e: logger.error(...)` around the whole body of each background
\* task: whether the body raised or not, the task returns
background_result(raised) == "returned"

\* the result lists a search hands to the loop: SearchResult(fragment_id, distance), each
\* indexed id at most once
RunResults ==
    UNION {{r \in [1..n -> [fragment_id : AnyFragmentId, distance : Distances]] :
                \A i, j \in 1..n : i # j => r[i].fragment_id # r[j].fragment_id} :
           n \in 0..MaxResults}

\* the rows of fragment_links without their identifiers
Edges(rows) == {<<l.source_id, l.target_id, l.link_type, l.strength>> : l \in rows}

\* the loop from result i on, up to its next `await db.create_link(link)`: the index of
\* the first result that passes both `continue` tests, Len(results) + 1 when the loop
\* ends without one
RECURSIVE next_link(_, _, _)
next_link(fragment_uuid, results, i) ==
    IF i > Len(results) THEN Len(results) + 1
    ELSE IF ShouldLink(fragment_uuid, results[i]) THEN i
    ELSE next_link(fragment_uuid, results, i + 1)

\* a loop that catches the exception of create_link inside and goes on with the next
\* result
after_exception_skip(fragment_uuid, results, i) == next_link(fragment_uuid, results, i + 1)

\* create_link raising at result i: the only handler is the `except Exception` around
\* the whole body, so the loop is left
after_exception(fragment_uuid, results, i) == Len(results) + 1

\* what a run that has ended leaves for its caller and in the log: the fragment and the
\* results it ran over, the identifiers of the links it stored, the result at which
\* create_link raised (0 for none), whether it repeated the run before it with no other
\* call in between and the table as that run left it, and the table as this run leaves it
RunEnded(t, raised, rows) ==
    [op |-> "link_similar_fragments_background",
     fragment_id |-> t.fragment_id, results |-> t.results,
     written |-> t.written, failed_at |-> t.failed_at, raised |-> raised,
     repeat |-> t.repeat, before |-> t.before,
     edges |-> Edges(rows), rows |-> Cardinality(rows),
     result |-> background_result(raised)]

\* a run has been started and no call has ended since
Awaited == [op |-> "await link_similar_fragments_background"]

\* the table as the last call left it when that call was a run
LeftBy(call) == [edges |-> call.edges, rows |-> call.rows]
Unknown == [edges |-> {}, rows |-> 0]

\* the run before this one, undisturbed: the last call that ended was a run for the same
\* fragment over the same results
Repeats(fragment_uuid, results) ==
    /\ last.op = "link_similar_fragments_background"
    /\ last.fragment_id = fragment_uuid
    /\ last.results = results

\* link_similar_fragments_background(fragment_id, vector) with the search returning
\* `results`, up to the first `await db.create_link(link)`; a run with no result to link
\* ends here
LinkSimilarFragmentsBackground(fragment_uuid, results) ==
    LET t == [kind |-> "link run", fragment_id |-> fragment_uuid, results |-> results,
              i |-> next_link(fragment_uuid, results, 1), written |-> {},
              failed_at |-> 0, raised |-> FALSE,
              repeat |-> Repeats(fragment_uuid, results),
              before |-> IF Repeats(fragment_uuid, results) THEN LeftBy(last)
                         ELSE Unknown]
    IN
    /\ tasks = EmptyBag
    /\ IF t.i > Len(results)
       THEN /\ last' = RunEnded(t, FALSE, fragment_links)
            /\ UNCHANGED tasks
       ELSE /\ tasks' = Spawn(tasks, t)
            /\ last' = Awaited
    /\ UNCHANGED <<Tables, index, request, deleting, ids, embeddings>>

\* the task awaited by a caller
CallLinkSimilarFragments ==
    \E fragment_uuid \in FragmentIds, results \in RunResults :
        LinkSimilarFragmentsBackground(fragment_uuid, results)

\* one `await db.create_link(link)` of a run and the loop up to the next one: the link
\* is stored in its own transaction, or the insert raises IntegrityError; the run ends
\* when the loop is left
LinkSimilarFragmentsCreateLink ==
    \E t \in Running :
        /\ t.kind = "link run"
        /\ nextLinkId <= MaxRunLinks
        /\ nextLinkId' = nextLinkId + 1
        /\ LET result == t.results[t.i]
               link == FragmentLink(t.fragment_id, result.fragment_id, RELATES_TO,
                                    Similarity(result.distance))
               ok == LinkKeysOk(fragments, link)
               next == IF ok
                       THEN [t EXCEPT !.i = next_link(t.fragment_id, t.results, t.i + 1),
                                      !.written = @ \cup {link.id},
                                      !.repeat = @ /\ last = Awaited]
                       ELSE [t EXCEPT !.i = after_exception(t.fragment_id, t.results, t.i),
                                      !.failed_at = IF @ = 0 THEN t.i ELSE @,
                                      !.raised = TRUE,
                                      !.repeat = @ /\ last = Awaited]
           IN
           /\ fragment_links' = IF ok THEN create_link(fragment_links, link)
                                ELSE fragment_links
           /\ IF next.i > Len(t.results)
              THEN /\ tasks' = Retire(tasks, t)
                   /\ last' = RunEnded(next, next.raised, fragment_links')
              ELSE /\ tasks' = Step(tasks, t, next)
                   /\ UNCHANGED last
        /\ UNCHANGED <<fragments, decisions, assumptions, index, request, deleting,
                       nextFragmentId, nextDecisionId, nextAssumptionId, embeddings>>

\* ------------------------------------------------------ the extractors, called directly
\* llm_result.model of a provider that answered
MODEL_NAME == "llama3.2"

\* a JSON value under "what" or "statement": a string, or null
RawTexts ==
    {[json |-> "text", value |-> ""], [json |-> "text", value |-> "x"],
     [json |-> "null", value |-> ""]}

\* a JSON value under "confidence": a number (in hundredths), a string that is not a
\* number, or null
RawConfidences ==
    {[json |-> "number", value |-> v] : v \in {30, 50, 90}}
        \cup {[json |-> "text", value |-> 0], [json |-> "null", value |-> 0]}

\* str(value): the text itself, "None" for null
str(raw) == IF raw.json = "null" THEN "None" ELSE raw.value

\* float(value): the number, ValueError for text that is no number, TypeError for null
float(raw) ==
    CASE raw.json = "number" -> [raised |-> "none", value |-> raw.value]
      [] raw.json = "text" -> [raised |-> "ValueError", value |-> 0]
      [] OTHER -> [raised |-> "TypeError", value |-> 0]

\* an element of the "decisions" list: an object with "what" and "confidence", or a
\* value that is not an object
DecisionCandidates ==
    [shape : {"object"}, what : RawTexts, confidence : RawConfidences]
        \cup {[shape |-> "number", what |-> [json |-> "null", value |-> ""],
               confidence |-> [json |-> "null", value |-> 0]]}

\* an element of the "assumptions" list
AssumptionCandidates ==
    [shape : {"object"}, statement : RawTexts]
        \cup {[shape |-> "number", statement |-> [json |-> "null", value |-> ""]]}

ListsOf(S) == UNION {[1..n -> S] : n \in 0..MaxCandidates}

\* what the provider does with the prompt: no answer (unreachable), text that is not
\* JSON, JSON that is not an object, an object whose list field is null, a string with
\* characters or the empty string, or an object whose list field is a list of candidates
FailureKinds == {"unreachable", "unparseable", "not_object", "field_null", "field_text",
                 "field_empty_text"}
ProviderOutputs(Candidates) ==
    {[kind |-> k, candidates |-> <<>>] : k \in FailureKinds}
        \cup {[kind |-> "object", candidates |-> c] : c \in ListsOf(Candidates)}

\* OllamaLLMProvider.generate_json: client.chat failing is ConnectionError, json.loads
\* failing is ValueError, any JSON value is returned as parsed
generate_json(output) ==
    CASE output.kind = "unreachable" -> "ConnectionError"
      [] output.kind = "unparseable" -> "ValueError"
      [] OTHER -> "none"

\* json_result.get(field, []) and the start of the for loop over it: a string with
\* characters yields a character, which has no get; the empty string yields nothing and
\* the loop runs zero times, as over an empty list
get_list(output) ==
    CASE output.kind = "not_object" -> "AttributeError"
      [] output.kind = "field_null" -> "TypeError"
      [] output.kind = "field_text" -> "AttributeError"
      [] OTHER -> "none"

Raise(e) == [raised |-> e, items |-> <<>>, model |-> "none"]
EmptyResult == [raised |-> "none", items |-> <<>>, model |-> "unknown"]

\* the except clauses of both extractors
on_exception_all(e) == EmptyResult
on_exception(e) == IF e = "ValueError" THEN EmptyResult ELSE Raise(e)

\* a filter that drops a candidate at the threshold too
below_min_confidence_or_at(confidence, min_confidence) == confidence <= min_confidence

\* `if confidence < min_confidence: continue`
below_min_confidence(confidence, min_confidence) == confidence < min_confidence

\* the loop of extract_decisions over raw_decisions, `id` the next identifier
RECURSIVE decisions_loop(_, _, _, _)
decisions_loop(raw_decisions, fragment_id, min_confidence, id) ==
    IF raw_decisions = <<>>
    THEN [raised |-> "none", items |-> <<>>]
    ELSE LET raw_decision == Head(raw_decisions)
             confidence == float(raw_decision.confidence)
         IN
         IF raw_decision.shape # "object"
         THEN [raised |-> "AttributeError", items |-> <<>>]
         ELSE IF confidence.raised # "none"
         THEN [raised |-> confidence.raised, items |-> <<>>]
         ELSE IF below_min_confidence(confidence.value, min_confidence)
         THEN decisions_loop(Tail(raw_decisions), fragment_id, min_confidence, id)
         ELSE LET rest == decisions_loop(Tail(raw_decisions), fragment_id,
                                         min_confidence, id + 1)
              IN [raised |-> rest.raised,
                  items |-> IF rest.raised # "none" THEN <<>>
                            ELSE <<[id |-> id, fragment_id |-> fragment_id,
                                    what |-> str(raw_decision.what),
                                    confidence |-> confidence.value]>> \o rest.items]

\* DecisionExtractor.extract_decisions with the provider answering `output`
extract_decisions(output, fragment_id, min_confidence, id) ==
    IF generate_json(output) # "none" THEN on_exception(generate_json(output))
    ELSE IF get_list(output) # "none" THEN on_exception(get_list(output))
    ELSE LET loop == decisions_loop(output.candidates, fragment_id, min_confidence, id) IN
         IF loop.raised # "none" THEN on_exception(loop.raised)
         ELSE [raised |-> "none", items |-> loop.items, model |-> MODEL_NAME]

\* an Assumption built as already validated
Assumption_valid(id, fragment_id, statement) ==
    [id |-> id, fragment_id |-> fragment_id, statement |-> statement,
     still_valid |-> 1, invalidated_by |-> NULL]

\* Assumption(fragment_id=..., statement=..., still_valid=None, invalidated_by=None)
Assumption(id, fragment_id, statement) ==
    [id |-> id, fragment_id |-> fragment_id, statement |-> statement,
     still_valid |-> NULL, invalidated_by |-> NULL]

\* the loop of extract_assumptions over raw_assumptions
RECURSIVE assumptions_loop(_, _, _)
assumptions_loop(raw_assumptions, fragment_id, id) ==
    IF raw_assumptions = <<>>
    THEN [raised |-> "none", items |-> <<>>]
    ELSE LET raw_assumption == Head(raw_assumptions)
             statement == str(raw_assumption.statement)
         IN
         IF raw_assumption.shape # "object"
         THEN [raised |-> "AttributeError", items |-> <<>>]
         ELSE IF statement = ""
         THEN assumptions_loop(Tail(raw_assumptions), fragment_id, id)
         ELSE LET rest == assumptions_loop(Tail(raw_assumptions), fragment_id, id + 1)
              IN [raised |-> rest.raised,
                  items |-> IF rest.raised # "none" THEN <<>>
                            ELSE <<Assumption(id, fragment_id, statement)>>
                                     \o rest.items]

\* AssumptionExtractor.extract_assumptions with the provider answering `output`
extract_assumptions(output, fragment_id, id) ==
    IF generate_json(output) # "none" THEN on_exception(generate_json(output))
    ELSE IF get_list(output) # "none" THEN on_exception(get_list(output))
    ELSE LET loop == assumptions_loop(output.candidates, fragment_id, id) IN
         IF loop.raised # "none" THEN on_exception(loop.raised)
         ELSE [raised |-> "none", items |-> loop.items, model |-> MODEL_NAME]

\* the outputs an extractor called on its own is given: lists of up to MaxRaw candidates
RawOutputs(Candidates) ==
    ProviderOutputs(Candidates)
        \cup {[kind |-> "object", candidates |-> c] :
                c \in UNION {[1..n -> Candidates] : n \in 0..MaxRaw}}

\* min_confidence as callers pass it: the default 0.5
MinConfidences == {50}

\* extract_decisions awaited by a caller; every Decision built takes a fresh identifier
CallExtractDecisions ==
    \E output \in RawOutputs(DecisionCandidates), fragment_id \in FragmentIds,
       min_confidence \in MinConfidences :
        LET result == extract_decisions(output, fragment_id, min_confidence,
                                        nextDecisionId)
        IN
        /\ nextDecisionId + Len(result.items) <= MaxExtracted + 1
        /\ nextDecisionId' = nextDecisionId + Len(result.items)
        /\ last' = [op |-> "extract_decisions", fragment_id |-> fragment_id,
                    output |-> output, min_confidence |-> min_confidence,
                    raised |-> result.raised, items |-> result.items,
                    model |-> result.model]
        /\ UNCHANGED <<embeddings, fragments, decisions, assumptions, fragment_links, index, request,
                       deleting, tasks, nextFragmentId, nextAssumptionId, nextLinkId>>

\* extract_assumptions awaited by a caller
CallExtractAssumptions ==
    \E output \in RawOutputs(AssumptionCandidates), fragment_id \in FragmentIds :
        LET result == extract_assumptions(output, fragment_id, nextAssumptionId) IN
        /\ nextAssumptionId + Len(result.items) <= MaxExtracted + 1
        /\ nextAssumptionId' = nextAssumptionId + Len(result.items)
        /\ last' = [op |-> "extract_assumptions", fragment_id |-> fragment_id,
                    output |-> output, raised |-> result.raised, items |-> result.items,
                    model |-> result.model]
        /\ UNCHANGED <<embeddings, fragments, decisions, assumptions, fragment_links, index, request,
                       deleting, tasks, nextFragmentId, nextDecisionId, nextLinkId>>

\* ------------------------------------------------------ the background tasks, called directly
\* the columns of a decisions row, of an assumptions row
DecisionRow(decision) == [id |-> decision.id, fragment_id |-> decision.fragment_id]
AssumptionRow(assumption) ==
    [id |-> assumption.id, fragment_id |-> assumption.fragment_id,
     still_valid |-> assumption.still_valid, invalidated_by |-> assumption.invalidated_by]

\* `for decision in result.decisions: await db.create_decision(decision)`: the table
\* left, and IntegrityError when an insert raised (the loop is left there)
RECURSIVE store_decisions(_, _, _)
store_decisions(rows, frs, items) ==
    IF items = <<>>
    THEN [rows |-> rows, raised |-> "none"]
    ELSE IF ForeignKeyOk(frs, Head(items).fragment_id)
         THEN store_decisions(create_decision(rows, DecisionRow(Head(items))), frs,
                              Tail(items))
         ELSE [rows |-> rows, raised |-> "IntegrityError"]

\* `for assumption in result.assumptions: await db.create_assumption(assumption)`
RECURSIVE store_assumptions(_, _, _)
store_assumptions(rows, frs, items) ==
    IF items = <<>>
    THEN [rows |-> rows, raised |-> "none"]
    ELSE IF AssumptionKeysOk(frs, AssumptionRow(Head(items)))
         THEN store_assumptions(create_assumption(rows, AssumptionRow(Head(items))), frs,
                                Tail(items))
         ELSE [rows |-> rows, raised |-> "IntegrityError"]

\* fragments.py: extract_decisions(..., min_confidence=0.5)
MIN_CONFIDENCE == 50

\* extract_decisions_background(fragment_id, content) awaited by a caller while no
\* other task is running, the provider answering `output`: the whole task
CallExtractDecisionsBackground ==
    /\ tasks = EmptyBag
    /\ \E fragment_id \in AnyFragmentId, output \in ProviderOutputs(DecisionCandidates) :
        LET result == extract_decisions(output, fragment_id, MIN_CONFIDENCE,
                                        nextDecisionId)
            store == store_decisions(decisions, fragments, result.items)
            raised == IF result.raised # "none" THEN result.raised ELSE store.raised
        IN
        /\ nextDecisionId + Len(result.items) <= MaxDecisions + 1
        /\ nextDecisionId' = nextDecisionId + Len(result.items)
        /\ decisions' = store.rows
        /\ last' = [op |-> "extract_decisions_background", fragment_id |-> fragment_id,
                    raised |-> raised,
                    result |-> background_result(raised # "none")]
        /\ UNCHANGED <<embeddings, fragments, assumptions, fragment_links, index, request, deleting,
                       tasks, nextFragmentId, nextAssumptionId, nextLinkId>>

\* extract_assumptions_background(fragment_id, content) awaited by a caller while no
\* other task is running
CallExtractAssumptionsBackground ==
    /\ tasks = EmptyBag
    /\ \E fragment_id \in AnyFragmentId, output \in ProviderOutputs(AssumptionCandidates) :
        LET result == extract_assumptions(output, fragment_id, nextAssumptionId)
            store == store_assumptions(assumptions, fragments, result.items)
            raised == IF result.raised # "none" THEN result.raised ELSE store.raised
        IN
        /\ nextAssumptionId + Len(result.items) <= MaxAssumptions + 1
        /\ nextAssumptionId' = nextAssumptionId + Len(result.items)
        /\ assumptions' = store.rows
        /\ last' = [op |-> "extract_assumptions_background", fragment_id |-> fragment_id,
                    raised |-> raised,
                    result |-> background_result(raised # "none")]
        /\ UNCHANGED <<embeddings, fragments, decisions, fragment_links, index, request, deleting,
                       tasks, nextFragmentId, nextDecisionId, nextLinkId>>

\* ------------------------------------------------------ extraction run more than once
\* the columns of a row that come from the extractor's object
DecisionColumns(decision) ==
    [id |-> decision.id, fragment_id |-> decision.fragment_id, what |-> decision.what,
     confidence |-> decision.confidence]
AssumptionColumns(assumption) ==
    [id |-> assumption.id, fragment_id |-> assumption.fragment_id,
     statement |-> assumption.statement, still_valid |-> assumption.still_valid,
     invalidated_by |-> assumption.invalidated_by]

\* a run of a background extraction task after its extractor has answered: the objects
\* built from `output` wait to be stored; `overlapped` tells whether another run was
\* between its extraction and its last insert at that time. A run stays in `tasks` when
\* it is done
Run(kind, fragment_id, output, result) ==
    [kind |-> kind, fragment_id |-> fragment_id, output |-> output,
     items |-> result.items, next |-> 1, raised |-> result.raised,
     pc |-> IF result.items = <<>> THEN "done" ELSE "store",
     overlapped |-> \E t \in Running : t.pc = "store"]

\* extract_decisions_background up to the end of `await extractor.extract_decisions`
RunExtractDecisions ==
    \E fragment_id \in FragmentIds, output \in ProviderOutputs(DecisionCandidates) :
        LET result == extract_decisions(output, fragment_id, MIN_CONFIDENCE,
                                        nextDecisionId)
        IN
        /\ BagCardinality(tasks) < MaxRuns
        /\ nextDecisionId' = nextDecisionId + Len(result.items)
        /\ tasks' = Spawn(tasks, Run("extract_decisions_background", fragment_id, output,
                                     result))
        /\ UNCHANGED <<Tables, index, request, deleting, nextFragmentId,
                       nextAssumptionId, nextLinkId, last, embeddings>>

\* extract_assumptions_background up to the end of `await
\* extractor.extract_assumptions`
RunExtractAssumptions ==
    \E fragment_id \in FragmentIds, output \in ProviderOutputs(AssumptionCandidates) :
        LET result == extract_assumptions(output, fragment_id, nextAssumptionId) IN
        /\ BagCardinality(tasks) < MaxRuns
        /\ nextAssumptionId' = nextAssumptionId + Len(result.items)
        /\ tasks' = Spawn(tasks, Run("extract_assumptions_background", fragment_id,
                                     output, result))
        /\ UNCHANGED <<Tables, index, request, deleting, nextFragmentId, nextDecisionId,
                       nextLinkId, last, embeddings>>

\* the run after the insert of its item `next`, which raised or not
AfterInsert(t, ok) ==
    IF ~ok THEN [t EXCEPT !.raised = "IntegrityError", !.pc = "done"]
    ELSE [t EXCEPT !.next = @ + 1, !.pc = IF t.next = Len(t.items) THEN "done" ELSE "store"]

\* one `await db.create_decision(decision)` of the loop of a run
RunStoreDecision ==
    \E t \in Running :
        /\ t.kind = "extract_decisions_background"
        /\ t.pc = "store"
        /\ LET decision == DecisionColumns(t.items[t.next])
               ok == ForeignKeyOk(fragments, decision.fragment_id)
           IN
           /\ decisions' = IF ok THEN create_decision(decisions, decision) ELSE decisions
           /\ tasks' = Step(tasks, t, AfterInsert(t, ok))
        /\ UNCHANGED <<fragments, assumptions, fragment_links, index, request, deleting,
                       ids, last, embeddings>>

\* one `await db.create_assumption(assumption)` of the loop of a run
RunStoreAssumption ==
    \E t \in Running :
        /\ t.kind = "extract_assumptions_background"
        /\ t.pc = "store"
        /\ LET assumption == AssumptionColumns(t.items[t.next])
               ok == AssumptionKeysOk(fragments, assumption)
           IN
           /\ assumptions' = IF ok THEN create_assumption(assumptions, assumption)
                             ELSE assumptions
           /\ tasks' = Step(tasks, t, AfterInsert(t, ok))
        /\ UNCHANGED <<fragments, decisions, fragment_links, index, request, deleting,
                       ids, last, embeddings>>

\* the result lists of a search that finds one fragment, at the least or the greatest
\* distance
OneNeighbor == {<<r>> : r \in [fragment_id : AnyFragmentId, distance : {0, 150}]}

\* the linking task awaited by a caller, the index holding one fragment
CallLinkSimilarFragmentsOne ==
    \E fragment_uuid \in FragmentIds, results \in OneNeighbor :
        LinkSimilarFragmentsBackground(fragment_uuid, results)

\* link_similar_fragments_background awaited by a caller with the vector index failing:
\* search_similar raises before the loop
CallLinkSimilarFragmentsNoIndex ==
    \E fragment_uuid \in AnyFragmentId :
        /\ last' = RunEnded([fragment_id |-> fragment_uuid, results |-> <<>>,
                              written |-> {}, failed_at |-> 0, repeat |-> FALSE,
                              before |-> Unknown],
                             TRUE, fragment_links)
        /\ UNCHANGED <<embeddings, fragments, decisions, assumptions, fragment_links, index, request,
                       deleting, tasks, ids>>

\* ------------------------------------------------------ Database.get_related_fragments
\* the link_type argument: <<>> for None, else one kind
KindFilters == {<<>>} \cup {<<k>> : k \in LinkKinds}

\* a query that follows a link from its source only
RelatedRows_outgoing(frs, links, fragment_id, link_type) ==
    {r \in [f : frs, fl : links] :
        /\ r.fl.target_id = r.f.id
        /\ r.fl.source_id = fragment_id
        /\ r.f.id # fragment_id
        /\ link_type # <<>> => r.fl.link_type = link_type[1]}

\* SELECT f.*, fl.strength, fl.link_type FROM fragments f JOIN fragment_links fl
\* ON (fl.target_id = f.id OR fl.source_id = f.id)
\* WHERE (fl.source_id = ? OR fl.target_id = ?) AND f.id != ? [AND fl.link_type = ?]
RelatedRows(frs, links, fragment_id, link_type) ==
    {r \in [f : frs, fl : links] :
        /\ r.fl.target_id = r.f.id \/ r.fl.source_id = r.f.id
        /\ r.fl.source_id = fragment_id \/ r.fl.target_id = fragment_id
        /\ r.f.id # fragment_id
        /\ link_type # <<>> => r.fl.link_type = link_type[1]}

\* ORDER BY fl.strength DESC: the orders in which the rows can come, rows of equal
\* strength in any order
OrderByStrengthDesc(rows) ==
    {list \in [1..Cardinality(rows) -> rows] :
        /\ \A i, j \in DOMAIN list : i # j => list[i] # list[j]
        /\ \A i, j \in DOMAIN list : i < j => list[i].fl.strength >= list[j].fl.strength}

\* the tuple built for a row: (fragment, strength, link_type)
RelatedTuple(r) ==
    [fragment |-> r.f, strength |-> r.fl.strength, link_type |-> r.fl.link_type]

\* Database.get_related_fragments called directly
CallGetRelatedFragments ==
    \E fragment_id \in AnyFragmentId, link_type \in KindFilters :
        \E list \in OrderByStrengthDesc(
                        RelatedRows(fragments, fragment_links, fragment_id, link_type)) :
            /\ last' = [op |-> "get_related_fragments", fragment_id |-> fragment_id,
                        link_type |-> link_type,
                        result |-> [i \in DOMAIN list |-> RelatedTuple(list[i])]]
            /\ UNCHANGED <<fragments, decisions, assumptions, fragment_links, index,
                           request, deleting, tasks, ids, embeddings>>

\* ------------------------------------------------------ Database.list_assumptions
\* the same calls, up to MaxListed assumptions
CallCreateAssumptionListed == CreateAssumptionCall(MaxListed)

\* a valid_only clause that forgets the assumptions not yet validated
ValidityClause_checked_only(a, valid_only, invalid_only) ==
    /\ valid_only => a.still_valid = 1
    /\ invalid_only => a.still_valid = 0

\* " AND (still_valid = 1 OR still_valid IS NULL)" and " AND still_valid = 0"
ValidityClause(a, valid_only, invalid_only) ==
    /\ valid_only => a.still_valid = 1 \/ a.still_valid = NULL
    /\ invalid_only => a.still_valid = 0

\* the WHERE clause of list_assumptions: `if project:` joins the fragments and keeps the
\* assumptions of fragments of that project, `if fragment_id:` keeps those of one
\* fragment (NULL is None for both)
ListWhere(rows, frs, fragment_id, project, valid_only, invalid_only) ==
    {a \in rows :
        /\ project # NULL => \E f \in frs : f.id = a.fragment_id /\ f.project = project
        /\ fragment_id # NULL => a.fragment_id = fragment_id
        /\ ValidityClause(a, valid_only, invalid_only)}

\* the lists that hold each row of a set once
Orderings(rows) ==
    {p \in [1..Cardinality(rows) -> rows] :
        \A i, j \in DOMAIN p : i # j => p[i] # p[j]}

\* ORDER BY created_at DESC: created_at is the second of the INSERT (DEFAULT
\* (datetime('now'))), which the rows here do not keep; rows inserted within one second
\* come in an order the database does not define, so every order is a possible answer
NewestFirst(rows) == Orderings(rows)

\* LIMIT ?
Limit(list, limit) == SubSeq(list, 1, Min(limit, Len(list)))

\* Database.list_assumptions: the lists the call can return
list_assumptions(rows, frs, fragment_id, project, valid_only, invalid_only, limit) ==
    {Limit(list, limit) :
        list \in NewestFirst(ListWhere(rows, frs, fragment_id, project, valid_only,
                                       invalid_only))}

\* Database.create_fragment called directly with a fragment of project 1
CallCreateFragmentOfProject ==
    /\ nextFragmentId <= MaxFragments
    /\ fragments' = fragments \cup {[id |-> nextFragmentId, project |-> 1, summary |-> NULL]}
    /\ nextFragmentId' = nextFragmentId + 1
    /\ last' = [op |-> "create_fragment", id |-> nextFragmentId, result |-> "ok"]
    /\ UNCHANGED <<embeddings, decisions, assumptions, fragment_links, index, request,
                   deleting, tasks, nextDecisionId, nextAssumptionId, nextLinkId>>

\* the filters and limits a caller passes
ProjectFilters == {NULL, 1, 2}
Limits == {1, 100}

\* the WHERE clause of list_decisions: `if project:` joins the fragments, `if
\* fragment_id:` keeps the decisions of one fragment
DecisionsWhere(rows, frs, fragment_id, project) ==
    {d \in rows :
        /\ project # NULL => \E f \in frs : f.id = d.fragment_id /\ f.project = project
        /\ fragment_id # NULL => d.fragment_id = fragment_id}

\* Database.list_decisions: the lists the call can return
list_decisions(rows, frs, fragment_id, project, limit) ==
    {Limit(list, limit) : list \in NewestFirst(DecisionsWhere(rows, frs, fragment_id,
                                                              project))}

\* Database.list_decisions called directly
CallListDecisions ==
    \E fragment_id \in FragmentIds \cup {NULL}, project \in ProjectFilters,
       limit \in Limits :
        /\ \E result \in list_decisions(decisions, fragments, fragment_id, project, limit) :
            last' = [op |-> "list_decisions", fragment_id |-> fragment_id,
                     project |-> project, limit |-> limit, result |-> result]
        /\ UNCHANGED <<Tables, index, request, deleting, tasks, ids, embeddings>>

\* Database.list_assumptions called directly
CallListAssumptions ==
    \E fragment_id \in FragmentIds \cup {NULL}, project \in ProjectFilters,
       valid_only \in BOOLEAN, invalid_only \in BOOLEAN, limit \in Limits :
        /\ \E result \in list_assumptions(assumptions, fragments, fragment_id, project,
                                           valid_only, invalid_only, limit) :
            last' = [op |-> "list_assumptions", fragment_id |-> fragment_id,
                     project |-> project, valid_only |-> valid_only,
                     invalid_only |-> invalid_only, limit |-> limit, result |-> result]
        /\ UNCHANGED <<fragments, decisions, assumptions, fragment_links, index, request,
                       deleting, tasks, ids, embeddings>>

\* ------------------------------------------------------ the routes and their responses
\* a path or body identifier that UUID() does not parse
NotUUID == 0

\* UUID(text) raises ValueError
IsUUID(text) == text # NotUUID

\* LinkType(request.link_type.lower()) raises ValueError for a value no member has
IsLinkType(link_type) == \E i \in DOMAIN LinkType : LinkType[i] = link_type

\* the identifiers and link types a client sends
PathFragmentIds == AnyFragmentId \cup {NotUUID}
PathAssumptionIds == AnyAssumptionId \cup {NotUUID}
RequestLinkTypes == LinkKinds \cup {"depends_on"}

\* db.list_assumptions(limit=1000) of route invalidate_assumption
REFETCH_LIMIT == 1000

\* the response of a route: HTTPException(status_code, detail) or the success status;
\* `wrote` tells whether a statement of the request changed a table. One request is
\* followed at a time, from its arrival to its response
Response(route, status_code, detail, wrote) ==
    [op |-> route, status |-> status_code, detail |-> detail, wrote |-> wrote]

\* route create_fragment_link up to db.get_fragment(source_uuid): 400 for a malformed
\* identifier, 404 for a missing source
LinkRouteSource ==
    \E fragment_id \in PathFragmentIds, target_id \in PathFragmentIds,
       link_type \in RequestLinkTypes :
        /\ tasks = EmptyBag
        /\ IF ~IsUUID(fragment_id) \/ ~IsUUID(target_id)
           THEN /\ last' = Response("route create_fragment_link", 400,
                                    "Invalid fragment ID format", FALSE)
                /\ tasks' = tasks
           ELSE IF get_fragment(fragments, fragment_id) = {}
           THEN /\ last' = Response("route create_fragment_link", 404,
                                    "Source fragment not found", FALSE)
                /\ tasks' = tasks
           ELSE /\ last' = last
                /\ tasks' = Spawn(tasks, [kind |-> "route create_fragment_link",
                                          pc |-> "get_target", source_id |-> fragment_id,
                                          target_id |-> target_id,
                                          link_type |-> link_type])
        /\ UNCHANGED <<Tables, index, request, deleting, ids, embeddings>>

\* route create_fragment_link, db.get_fragment(target_uuid) and the parse of the link
\* type: 404 for a missing target, 400 for an unknown link type
LinkRouteTarget ==
    \E t \in Running :
        /\ t.kind = "route create_fragment_link"
        /\ t.pc = "get_target"
        /\ IF get_fragment(fragments, t.target_id) = {}
           THEN /\ last' = Response(t.kind, 404, "Target fragment not found", FALSE)
                /\ tasks' = Retire(tasks, t)
           ELSE IF ~IsLinkType(t.link_type)
           THEN /\ last' = Response(t.kind, 400, "Invalid link type", FALSE)
                /\ tasks' = Retire(tasks, t)
           ELSE /\ last' = last
                /\ tasks' = Step(tasks, t, [t EXCEPT !.pc = "create_link"])
        /\ UNCHANGED <<Tables, index, request, deleting, ids, embeddings>>

\* route create_fragment_link, db.create_link: 201, or the store's IntegrityError
\* propagates (500) and nothing is written
LinkRouteCreate ==
    \E t \in Running, strength \in Strengths :
        /\ t.kind = "route create_fragment_link"
        /\ t.pc = "create_link"
        /\ nextLinkId <= MaxLinks
        /\ LET link == FragmentLink(t.source_id, t.target_id, t.link_type, strength) IN
            IF LinkKeysOk(fragments, link)
            THEN /\ fragment_links' = create_link(fragment_links, link)
                 /\ last' = Response(t.kind, 201, "created",
                                     fragment_links' # fragment_links)
            ELSE /\ fragment_links' = fragment_links
                 /\ last' = Response(t.kind, 500, "IntegrityError", FALSE)
        /\ nextLinkId' = nextLinkId + 1
        /\ tasks' = Retire(tasks, t)
        /\ UNCHANGED <<embeddings, fragments, decisions, assumptions, index, request, deleting,
                       nextFragmentId, nextDecisionId, nextAssumptionId>>

\* route invalidate_assumption up to db.get_fragment(invalidated_by_id): 400 for a
\* malformed identifier, 404 for a missing invalidating fragment
InvalidateRouteFragment ==
    \E assumption_id \in PathAssumptionIds, invalidated_by \in PathFragmentIds :
        /\ tasks = EmptyBag
        /\ IF ~IsUUID(assumption_id) \/ ~IsUUID(invalidated_by)
           THEN /\ last' = Response("route invalidate_assumption", 400,
                                    "Invalid ID format", FALSE)
                /\ tasks' = tasks
           ELSE IF get_fragment(fragments, invalidated_by) = {}
           THEN /\ last' = Response("route invalidate_assumption", 404,
                                    "Invalidating fragment not found", FALSE)
                /\ tasks' = tasks
           ELSE /\ last' = last
                /\ tasks' = Spawn(tasks, [kind |-> "route invalidate_assumption",
                                          pc |-> "invalidate",
                                          assumption_id |-> assumption_id,
                                          invalidated_by |-> invalidated_by,
                                          wrote |-> FALSE])
        /\ UNCHANGED <<Tables, index, request, deleting, ids, embeddings>>

\* route invalidate_assumption, db.invalidate_assumption: 404 when no row was updated,
\* 500 when the statement raises, else the request goes on to fetch the row
InvalidateRouteUpdate ==
    \E t \in Running :
        /\ t.kind = "route invalidate_assumption"
        /\ t.pc = "invalidate"
        /\ IF ~InvalidateKeysOk(fragments, assumptions, t.assumption_id, t.invalidated_by)
           THEN /\ assumptions' = assumptions
                /\ last' = Response(t.kind, 500, "IntegrityError", FALSE)
                /\ tasks' = Retire(tasks, t)
           ELSE /\ assumptions' = invalidate_assumption(assumptions, t.assumption_id,
                                                       t.invalidated_by)
                /\ IF Returned(assumptions, t.assumption_id) = "false"
                   THEN /\ last' = Response(t.kind, 404, "Assumption not found",
                                            assumptions' # assumptions)
                        /\ tasks' = Retire(tasks, t)
                   ELSE /\ last' = last
                        /\ tasks' = Step(tasks, t,
                                         [t EXCEPT !.pc = "list_assumptions",
                                                   !.wrote = assumptions' # assumptions])
        /\ UNCHANGED <<fragments, decisions, fragment_links, index, request, deleting, ids,
                       embeddings>>

\* route invalidate_assumption, db.list_assumptions(limit=1000) and the search of the
\* updated assumption in it: 404 when it is not in the list, else 200
InvalidateRouteRefetch ==
    \E t \in Running :
        /\ t.kind = "route invalidate_assumption"
        /\ t.pc = "list_assumptions"
        /\ \E all_assumptions \in list_assumptions(assumptions, fragments, NULL, NULL,
                                                    FALSE, FALSE, REFETCH_LIMIT) :
            IF \E i \in DOMAIN all_assumptions : all_assumptions[i].id = t.assumption_id
            THEN last' = Response(t.kind, 200, "ok", t.wrote)
            ELSE last' = Response(t.kind, 404, "Assumption not found after update",
                                  t.wrote)
        /\ tasks' = Retire(tasks, t)
        /\ UNCHANGED <<Tables, index, request, deleting, ids, embeddings>>

\* ------------------------------------------------------ route update_fragment
\* INSERT OR REPLACE in place of the UPDATE
update_fragment_upsert(rows, fragment) ==
    {r \in rows : r.id # fragment.id} \cup {fragment}

\* an UPDATE that leaves the project column out
update_fragment_keep_project(rows, fragment) ==
    {IF r.id = fragment.id THEN [fragment EXCEPT !.project = r.project] ELSE r : r \in rows}

\* Database.update_fragment: UPDATE fragments SET summary = ?, ..., project = ? WHERE
\* id = ?, every column from the object passed
update_fragment(rows, fragment) ==
    {IF r.id = fragment.id THEN fragment ELSE r : r \in rows}

\* Database.update_fragment called directly with a ContextFragment object
CallUpdateFragment ==
    \E id \in AnyFragmentId, project \in {NULL, 1, 2}, summary \in {NULL, 1} :
        /\ fragments' = update_fragment(fragments, [id |-> id, project |-> project,
                                                    summary |-> summary])
        /\ last' = [op |-> "update_fragment", id |-> id, project |-> project,
                    summary |-> summary, result |-> "ok"]
        /\ UNCHANGED <<decisions, assumptions, fragment_links, index, request, deleting,
                       tasks, ids, embeddings>>

\* request.project and request.summary of an update request: NULL for a field the
\* request leaves out
RequestProjects == {NULL, 1, 2}
RequestSummaries == {NULL, 1}

\* "Update only provided fields": the object read, with the fields of the request
Provided(fragment, project, summary) ==
    [fragment EXCEPT !.project = IF project # NULL THEN project ELSE @,
                     !.summary = IF summary # NULL THEN summary ELSE @]

\* route update_fragment up to db.get_fragment: 404 when the fragment is missing, else
\* the request holds the object read. A request stays in `tasks` when it is done
UpdateRouteRead ==
    \E fragment_id \in AnyFragmentId, project \in RequestProjects,
       summary \in RequestSummaries :
        /\ BagCardinality(tasks) < MaxUpdates
        /\ get_fragment(fragments, fragment_id) # {}
        /\ \E fragment \in get_fragment(fragments, fragment_id) :
            tasks' = Spawn(tasks, [kind |-> "route update_fragment", pc |-> "update",
                                   fragment |-> fragment, project |-> project,
                                   summary |-> summary, rowcount |-> 0])
        /\ UNCHANGED <<Tables, index, request, deleting, ids, last, embeddings>>

\* route update_fragment, the assignments and db.update_fragment: 200; `rowcount` is
\* the number of rows the UPDATE changed, which the code does not read
UpdateRouteWrite ==
    \E t \in Running :
        /\ t.kind = "route update_fragment"
        /\ t.pc = "update"
        /\ fragments' = update_fragment(fragments,
                                        Provided(t.fragment, t.project, t.summary))
        /\ tasks' = Step(tasks, t,
                [t EXCEPT !.pc = "done",
                          !.rowcount = Cardinality(get_fragment(fragments, t.fragment.id))])
        /\ UNCHANGED <<decisions, assumptions, fragment_links, index, request, deleting,
                       ids, last, embeddings>>

\* request.project of the update requests made while the enrichment tasks run; these
\* requests give no summary
UpdatedProjects == {1}

\* route update_fragment up to db.get_fragment, of a request made while the enrichment
\* tasks run: 404 when the fragment is missing, else the request holds the object read
UpdateFragmentRead ==
    \E fragment_id \in AnyFragmentId, project \in UpdatedProjects :
        /\ BagCardinality(tasks) < MaxBusy
        /\ \E fragment \in get_fragment(fragments, fragment_id) :
            tasks' = Spawn(tasks, [kind |-> "route update_fragment", pc |-> "update",
                                   fragment |-> fragment, project |-> project,
                                   summary |-> NULL, rowcount |-> 0])
        /\ UNCHANGED <<Tables, index, request, deleting, ids, last, embeddings>>

\* route update_fragment, the assignments and db.update_fragment: 200, and the request
\* is over
UpdateFragmentWrite ==
    \E t \in Running :
        /\ t.kind = "route update_fragment"
        /\ t.pc = "update"
        /\ fragments' = update_fragment(fragments,
                                        Provided(t.fragment, t.project, t.summary))
        /\ tasks' = Retire(tasks, t)
        /\ UNCHANGED <<decisions, assumptions, fragment_links, index, request, deleting,
                       ids, last, embeddings>>

\* ------------------------------------------------------ EmbeddingCache
\* model names and texts, as strings of characters
CacheModels == {<<"m">>, <<"m", ":", "v">>}
CacheTexts == {<<"t">>, <<"v", ":", "t">>, <<"t", "t">>}
\* embedding vectors, by name
Vectors == {1, 2}

\* hashlib.sha256(content.encode()).hexdigest(): a digest without collisions, written as
\* the content it is the digest of
sha256(content) == content

\* a key made of the model name alone
_hash_text_model_only(text, model) == sha256(model)

\* EmbeddingCache._hash_text: content = f"{model}:{text}"
_hash_text(text, model) == sha256(model \o <<":">> \o text)

\* list.remove(key): the list without the first occurrence of key
RECURSIVE remove(_, _)
remove(list, key) ==
    IF list = <<>> THEN <<>>
    ELSE IF Head(list) = key THEN Tail(list)
    ELSE <<Head(list)>> \o remove(Tail(list), key)

\* the keys of the dict
Keys(cache) == DOMAIN cache._cache
\* EmbeddingCache.size: len(self._cache)
size(cache) == Cardinality(Keys(cache))

\* EmbeddingCache.get: the cache it leaves and what it returns (NULL for None)
get(cache, text, model) ==
    LET key == _hash_text(text, model) IN
    IF key \in Keys(cache)
    THEN [cache |-> [cache EXCEPT !._access_order = Append(remove(@, key), key)],
          result |-> cache._cache[key]]
    ELSE [cache |-> cache, result |-> NULL]

\* a set that makes no room
evict_none(cache) == cache

\* `while len(self._cache) >= self.max_size and self._access_order:` pop the oldest key
\* of the access order and drop it from the dict if it is there
RECURSIVE evict(_)
evict(cache) ==
    IF size(cache) >= MaxCacheSize /\ cache._access_order # <<>>
    THEN LET oldest_key == Head(cache._access_order) IN
         evict([_cache |-> [k \in Keys(cache) \ {oldest_key} |-> cache._cache[k]],
                _access_order |-> Tail(cache._access_order)])
    ELSE cache

\* EmbeddingCache.set: evict, then self._cache[key] = embedding and append the key
set(cache, text, model, embedding) ==
    LET key == _hash_text(text, model)
        room == evict(cache)
    IN [_cache |-> [k \in Keys(room) \cup {key} |->
                        IF k = key THEN embedding ELSE room._cache[k]],
        _access_order |-> Append(room._access_order, key)]

\* EmbeddingCache.clear
clear(cache) == [_cache |-> <<>>, _access_order |-> <<>>]

\* the order of last use after `key` was used and the keys outside `kept` were dropped
Used(order, key, kept) ==
    SelectSeq(order, LAMBDA k : k \in kept /\ k # key) \o <<key>>

\* EmbeddingCache.get called directly
CallCacheGet ==
    \E text \in CacheTexts, model \in CacheModels :
        LET call == get(embedding_cache, text, model) IN
        /\ embedding_cache' = call.cache
        /\ recency' = IF call.result = NULL THEN recency
                      ELSE Used(recency, _hash_text(text, model), Keys(call.cache))
        /\ last' = [op |-> "get", text |-> text, model |-> model, result |-> call.result]
        /\ UNCHANGED <<fragments, decisions, assumptions, fragment_links, index, request,
                       deleting, tasks, ids>>

\* EmbeddingCache.set called directly; the access order is kept within MaxOrder entries
CallCacheSet ==
    \E text \in CacheTexts, model \in CacheModels, embedding \in Vectors :
        LET after == set(embedding_cache, text, model, embedding) IN
        /\ Len(after._access_order) <= MaxOrder
        /\ embedding_cache' = after
        /\ recency' = Used(recency, _hash_text(text, model), Keys(after))
        /\ last' = [op |-> "set", text |-> text, model |-> model, embedding |-> embedding,
                    evicted |-> Keys(embedding_cache) \ Keys(after)]
        /\ UNCHANGED <<fragments, decisions, assumptions, fragment_links, index, request,
                       deleting, tasks, ids>>

\* EmbeddingCache.clear called directly
CallCacheClear ==
    /\ embedding_cache' = clear(embedding_cache)
    /\ recency' = <<>>
    /\ last' = [op |-> "clear"]
    /\ UNCHANGED <<fragments, decisions, assumptions, fragment_links, index, request,
                   deleting, tasks, ids>>

\* ------------------------------------------------------ EmbeddingService.embed
\* provider.model_name of the service
EMBED_MODEL == <<"m">>

\* provider.embed(text) of a provider that answers each text with one vector
Provider(text) == Len(text)

\* the texts the service is asked to embed
EmbedTexts == {<<"t">>, <<"t", "t">>}

\* what the provider's _get_client does before the provider awaits anything: it hands
\* out the client, or it raises (ImportError when the package is missing; the ValueError
\* of OpenAIEmbeddingProvider without an API key goes the same way everywhere)
ClientOutcomes == {"none", "ImportError"}

\* what happens to the awaited call of the provider: it answers, or the provider is not
\* reached: OllamaEmbeddingProvider.embed raises ConnectionError for any failure of its
\* call, OpenAIEmbeddingProvider.embed lets the client's own exception through
ProviderOutcomes == {"none", "ConnectionError", "APIConnectionError"}

\* the cache together with the order of last use, after cache.get(text, model_name)
Got(held, text) ==
    LET call == get(held.cache, text, EMBED_MODEL) IN
    [cache |-> call.cache,
     recency |-> IF call.result = NULL THEN held.recency
                 ELSE Used(held.recency, _hash_text(text, EMBED_MODEL), Keys(call.cache)),
     result |-> call.result]

\* an embed that does not keep what the provider answered
embed_store_none(held, text, vector) == [cache |-> held.cache, recency |-> held.recency]

\* `if self._cache: self._cache.set(text, provider.model_name, vector)`: the cache
\* together with the order of last use, after the set
embed_store(held, text, vector) ==
    LET after == set(held.cache, text, EMBED_MODEL, vector) IN
    [cache |-> after,
     recency |-> Used(held.recency, _hash_text(text, EMBED_MODEL), Keys(after))]

\* the cache of the service and the order of last use
Held == [cache |-> embedding_cache, recency |-> recency]

\* EmbeddingResult(vector, cached) as embed returns it, or the exception it raises
EmbeddingResult(text, vector, cached, raised) ==
    [op |-> "embed", cache_enabled |-> TRUE, text |-> text, vector |-> vector,
     cached |-> cached, provider_called |-> ~cached, raised |-> raised]

\* EmbeddingService.embed on a service built with cache_enabled=True, up to its await:
\* a cached vector is returned at once, else the provider is called, which raises at
\* once when it gets no client
EmbedCheckCache ==
    \E text \in EmbedTexts, client \in ClientOutcomes :
        LET cached == Got(Held, text) IN
        IF cached.result # NULL
        THEN /\ embedding_cache' = cached.cache
             /\ recency' = cached.recency
             /\ last' = EmbeddingResult(text, cached.result, TRUE, "none")
             /\ UNCHANGED <<Tables, index, request, deleting, tasks, ids>>
        ELSE IF client # "none"
        THEN /\ last' = EmbeddingResult(text, NULL, FALSE, client)
             /\ UNCHANGED <<Tables, index, request, deleting, tasks, ids, embeddings>>
        ELSE /\ BagCardinality(tasks) < MaxEmbeds
             /\ tasks' = Spawn(tasks, [kind |-> "embed", text |-> text])
             /\ UNCHANGED <<Tables, index, request, deleting, ids, last, embeddings>>

\* EmbeddingService.embed from `await provider.embed(text)` on: the provider raises, or
\* its vector is stored in the cache and returned
EmbedGenerate ==
    \E t \in Running, outcome \in ProviderOutcomes :
        /\ t.kind = "embed"
        /\ tasks' = Retire(tasks, t)
        /\ IF outcome # "none"
           THEN /\ last' = EmbeddingResult(t.text, NULL, FALSE, outcome)
                /\ UNCHANGED embeddings
           ELSE LET vector == Provider(t.text)
                    stored == embed_store(Held, t.text, vector)
                IN
                /\ Len(stored.cache._access_order) <= MaxOrder
                /\ embedding_cache' = stored.cache
                /\ recency' = stored.recency
                /\ last' = EmbeddingResult(t.text, vector, FALSE, "none")
        /\ UNCHANGED <<Tables, index, request, deleting, ids>>

\* embed awaited on a service built with cache_enabled=False (self._cache is None)
CallEmbedNoCache ==
    \E text \in EmbedTexts, outcome \in ClientOutcomes \cup ProviderOutcomes :
        /\ last' = [op |-> "embed", cache_enabled |-> FALSE, text |-> text,
                    vector |-> IF outcome = "none" THEN Provider(text) ELSE NULL,
                    cached |-> FALSE, provider_called |-> TRUE, raised |-> outcome]
        /\ UNCHANGED <<fragments, decisions, assumptions, fragment_links, index, request,
                       deleting, tasks, ids, embeddings>>

\* ------------------------------------------------------ EmbeddingService.embed_batch
\* the lists of texts a batch is asked for
TextBatches == UNION {[1..n -> EmbedTexts] : n \in 0..MaxBatch}

\* the first loop of embed_batch over `texts`: cache.get for each text; the cache it
\* leaves and, text by text, the cached vector or NULL for the placeholder
RECURSIVE batch_check_cache(_, _)
batch_check_cache(held, texts) ==
    IF texts = <<>>
    THEN [cache |-> held.cache, recency |-> held.recency, results |-> <<>>]
    ELSE LET cached == Got(held, Head(texts))
             rest == batch_check_cache(cached, Tail(texts))
         IN [rest EXCEPT !.results = <<cached.result>> \o @]

\* texts_to_embed: the texts left with a placeholder, in their order
uncached_texts(texts, results) ==
    LET missed == SelectSeq([i \in DOMAIN texts |-> i], LAMBDA i : results[i] = NULL)
    IN [k \in DOMAIN missed |-> texts[missed[k]]]

\* the second loop of embed_batch: cache.set for each text the provider was given
RECURSIVE batch_store(_, _)
batch_store(held, texts) ==
    IF texts = <<>> THEN [cache |-> held.cache, recency |-> held.recency]
    ELSE batch_store(embed_store(held, Head(texts), Provider(Head(texts))), Tail(texts))

\* the list embed_batch returns: for each text its vector and whether it was cached
BatchResults(texts, results) ==
    [i \in DOMAIN texts |->
        IF results[i] # NULL THEN [vector |-> results[i], cached |-> TRUE]
        ELSE [vector |-> Provider(texts[i]), cached |-> FALSE]]

\* EmbeddingService.embed_batch up to its await: with every text cached the results are
\* returned at once, else the provider is given the texts that were not, and raises at
\* once when it gets no client
BatchCheckCache ==
    \E texts \in TextBatches, client \in ClientOutcomes :
        LET checked == batch_check_cache(Held, texts) IN
        /\ embedding_cache' = checked.cache
        /\ recency' = checked.recency
        /\ IF uncached_texts(texts, checked.results) = <<>>
           THEN /\ last' = [op |-> "embed_batch", texts |-> texts, provider_texts |-> <<>>,
                            results |-> BatchResults(texts, checked.results),
                            raised |-> "none"]
                /\ UNCHANGED tasks
           ELSE IF client # "none"
           THEN /\ last' = [op |-> "embed_batch", texts |-> texts,
                            provider_texts |-> uncached_texts(texts, checked.results),
                            results |-> <<>>, raised |-> client]
                /\ UNCHANGED tasks
           ELSE /\ BagCardinality(tasks) < MaxEmbeds
                /\ tasks' = Spawn(tasks, [kind |-> "embed_batch", texts |-> texts,
                                          results |-> checked.results])
                /\ UNCHANGED last
        /\ UNCHANGED <<Tables, index, request, deleting, ids>>

\* EmbeddingService.embed_batch from `await provider.embed_batch(uncached_texts)` on: the
\* provider raises, or each vector is stored in the cache and the results are returned
BatchGenerate ==
    \E t \in Running, outcome \in ProviderOutcomes :
        /\ t.kind = "embed_batch"
        /\ tasks' = Retire(tasks, t)
        /\ LET provider_texts == uncached_texts(t.texts, t.results) IN
           IF outcome # "none"
           THEN /\ last' = [op |-> "embed_batch", texts |-> t.texts,
                            provider_texts |-> provider_texts, results |-> <<>>,
                            raised |-> outcome]
                /\ UNCHANGED embeddings
           ELSE LET stored == batch_store(Held, provider_texts) IN
                /\ Len(stored.cache._access_order) <= MaxOrder
                /\ embedding_cache' = stored.cache
                /\ recency' = stored.recency
                /\ last' = [op |-> "embed_batch", texts |-> t.texts,
                            provider_texts |-> provider_texts,
                            results |-> BatchResults(t.texts, t.results),
                            raised |-> "none"]
        /\ UNCHANGED <<Tables, index, request, deleting, ids>>

\* ------------------------------------------------------ route create_fragment, embedding
\* request.content of the create requests
RequestContent == <<"t">>

\* the except clauses of route create_fragment, where the request ends: a ConnectionError,
\* whichever call raised it, is answered 503 and any other exception 500; the detail of
\* the answer holds the exception of the call that raised
create_fragment_except(call, raised) ==
    IF raised = "ConnectionError"
    THEN (IF call = "embed" THEN "503 embed" ELSE "503 add_embedding")
    ELSE (IF call = "embed" THEN "500 embed" ELSE "500 add_embedding")

\* route create_fragment from vector_store.add_embedding on: the call raises and the
\* route answers from its except clauses, or the id is upserted, the three tasks are
\* added and the route answers 201
AddEmbeddingAndTasks(f) ==
    \/ /\ \E raised \in {"ConnectionError", "RuntimeError"} :
            request' = [request EXCEPT ![f] = create_fragment_except("add_embedding", raised)]
       /\ UNCHANGED index
    \/ /\ request' = [request EXCEPT ![f] = "scheduled"]
       /\ index' = add_embedding(index, f)

\* route create_fragment after the row is stored: embedding_service.embed up to its
\* await; with the content cached the route goes on to add_embedding at once, else the
\* provider is called, and when it gets no client its exception ends the request there
EmbedAndIndex ==
    \E f \in FragmentIds, client \in ClientOutcomes :
        /\ request[f] = "stored"
        /\ LET cached == Got(Held, RequestContent) IN
           IF cached.result # NULL
           THEN /\ embedding_cache' = cached.cache
                /\ recency' = cached.recency
                /\ AddEmbeddingAndTasks(f)
           ELSE /\ request' = [request EXCEPT
                                ![f] = IF client # "none"
                                       THEN create_fragment_except("embed", client)
                                       ELSE "embedding"]
                /\ UNCHANGED <<index, embeddings>>
        /\ UNCHANGED <<Tables, deleting, tasks, ids, last>>

\* route create_fragment from `await provider.embed(text)` on: the provider raises and
\* the route answers from its except clauses (503 for ConnectionError, 500 for the
\* exception a provider lets through), or embed stores the vector in the cache and the
\* route goes on to add_embedding
GenerateAndIndex ==
    \E f \in FragmentIds :
        /\ request[f] = "embedding"
        /\ \/ /\ \E raised \in ProviderOutcomes \ {"none"} :
                    request' = [request EXCEPT
                                    ![f] = create_fragment_except("embed", raised)]
              /\ UNCHANGED <<index, embeddings>>
           \/ LET stored == embed_store(Held, RequestContent, Provider(RequestContent))
              IN
              /\ embedding_cache' = stored.cache
              /\ recency' = stored.recency
              /\ AddEmbeddingAndTasks(f)
        /\ UNCHANGED <<Tables, deleting, tasks, ids, last>>

\* the Database class driven by a caller, one method call (one transaction) at a time
NextStore ==
    \/ CreateFragment
    \/ CallDeleteFragment
    \/ CallCreateDecision
    \/ CallCreateAssumption
    \/ CallCreateLink
    \/ CallInvalidateAssumption
    \/ CallUpdateAssumptionValidity

SpecStore == Init /\ [][NextStore]_vars

\* the assumption lifecycle alone: the calls that write the assumptions table
NextLifecycle ==
    \/ CreateFragment
    \/ CallDeleteFragment
    \/ CallCreateAssumption
    \/ CallInvalidateAssumption
    \/ CallUpdateAssumptionValidity

SpecLifecycle == Init /\ [][NextLifecycle]_vars

\* link creation alone: the calls that write the fragment_links table
NextUpsert ==
    \/ CreateFragment
    \/ CallDeleteFragment
    \/ CallCreateLink

SpecUpsert == Init /\ [][NextUpsert]_vars

\* linking runs started one at a time, over a store that other callers fill and empty
\* before, after and between the awaits of a run
NextRun ==
    \/ CallCreateFragment
    \/ CallDeleteFragment
    \/ CallLinkSimilarFragments
    \/ LinkSimilarFragmentsCreateLink

SpecRun == Init /\ [][NextRun]_vars

\* the two extractors driven by a caller, one extraction at a time
NextExtract ==
    \/ CallExtractDecisions
    \/ CallExtractAssumptions

SpecExtract == Init /\ [][NextExtract]_vars

\* the three background tasks driven by a caller: an extraction task as one whole task
\* while nothing else runs, a linking run with fragments created between its awaits
NextTasks ==
    \/ CallCreateFragment
    \/ CallExtractDecisionsBackground
    \/ CallExtractAssumptionsBackground
    \/ CallLinkSimilarFragmentsOne
    \/ LinkSimilarFragmentsCreateLink
    \/ CallLinkSimilarFragmentsNoIndex

SpecTasks == Init /\ [][NextTasks]_vars

\* a VectorStore driven by a caller
NextIndex ==
    \/ CallAddEmbedding
    \/ CallAddEmbeddingsBatch
    \/ CallDeleteEmbedding
    \/ CallDeleteEmbeddingsBatch
    \/ CallReset

SpecIndex == Init /\ [][NextIndex]_vars

\* an EmbeddingCache driven by a caller
NextCache ==
    \/ CallCacheGet
    \/ CallCacheSet
    \/ CallCacheClear

SpecCache == Init /\ [][NextCache]_vars

\* two embedding services over one provider, one with a cache and one without: embed and
\* embed_batch calls with other calls between their awaits, and the cache read or
\* cleared at any point
NextEmbed ==
    \/ EmbedCheckCache
    \/ EmbedGenerate
    \/ BatchCheckCache
    \/ BatchGenerate
    \/ CallEmbedNoCache
    \/ CallCacheGet
    \/ CallCacheClear

SpecEmbed == Init /\ [][NextEmbed]_vars

\* fragments and links written and the relationship query asked by a caller
NextRelated ==
    \/ CallCreateFragment
    \/ CallCreateLink
    \/ CallGetRelatedFragments

SpecRelated == Init /\ [][NextRelated]_vars

\* assumptions written and listed by a caller
NextList ==
    \/ CallCreateFragment
    \/ CallCreateFragmentOfProject
    \/ CallCreateAssumptionListed
    \/ CallListAssumptions

SpecList == Init /\ [][NextList]_vars

\* link and invalidation requests, with fragments and assumptions written and deleted
\* meanwhile
NextRoutes ==
    \/ CallCreateFragment
    \/ CallCreateAssumption
    \/ CallDeleteFragment
    \/ LinkRouteSource
    \/ LinkRouteTarget
    \/ LinkRouteCreate
    \/ InvalidateRouteFragment
    \/ InvalidateRouteUpdate
    \/ InvalidateRouteRefetch

SpecRoutes == Init /\ [][NextRoutes]_vars

\* extraction tasks run again and again for the stored fragments
NextRerun ==
    \/ CallCreateFragment
    \/ RunExtractDecisions
    \/ RunExtractAssumptions
    \/ RunStoreDecision
    \/ RunStoreAssumption

SpecRerun == Init /\ [][NextRerun]_vars

\* update requests, with fragments and assumptions written and deleted meanwhile
NextUpdate ==
    \/ CallCreateFragment
    \/ CallCreateAssumption
    \/ CallDeleteFragment
    \/ UpdateRouteRead
    \/ UpdateRouteWrite

SpecUpdate == Init /\ [][NextUpdate]_vars

\* decisions and assumptions listed by project while fragments change project
NextProject ==
    \/ CallCreateFragment
    \/ CallCreateFragmentOfProject
    \/ CallCreateDecision
    \/ CallCreateAssumption
    \/ CallUpdateFragment
    \/ CallListDecisions
    \/ CallListAssumptions

SpecProject == Init /\ [][NextProject]_vars

\* ------------------------------------------------------ the application
\* the create and delete routes, the three enrichment tasks and the manual link route
NextEnrich ==
    \/ CreateFragment
    \/ EmbedAndIndex
    \/ GenerateAndIndex
    \/ DeleteFragment
    \/ DeleteEmbedding
    \/ ExtractDecisions
    \/ StoreDecision
    \/ ExtractAssumptions
    \/ StoreAssumption
    \/ LinkSearch
    \/ LinkIteration
    \/ RequestLink
    \/ CheckTarget
    \/ CreateLink

SpecEnrich == Init /\ [][NextEnrich]_vars

\* the fragment routes that write and the enrichment tasks
Next ==
    \/ CreateFragment
    \/ EmbedAndIndex
    \/ GenerateAndIndex
    \/ DeleteFragment
    \/ DeleteEmbedding
    \/ UpdateFragmentRead
    \/ UpdateFragmentWrite
    \/ ExtractDecisions
    \/ StoreDecision
    \/ ExtractAssumptions
    \/ StoreAssumption
    \/ LinkSearch
    \/ LinkIteration
    \/ RequestLink
    \/ CheckTarget
    \/ CreateLink

Spec == Init /\ [][Next]_vars

\* the fragment routes and the linking task, without the extraction tasks
NextLinking ==
    \/ CreateFragment
    \/ EmbedAndIndex
    \/ GenerateAndIndex
    \/ DeleteFragment
    \/ DeleteEmbedding
    \/ LinkSearch
    \/ LinkIteration
    \/ RequestLink
    \/ CheckTarget
    \/ CreateLink

SpecLinking == Init /\ [][NextLinking]_vars

\* ------------------------------------------------------ properties of the store calls
\* the step is a direct call of the store method `op` (a repeated identical call that
\* changes nothing is a stuttering step)
Called(op) == last' # last /\ last'.op = op

\* the stored assumption with this id, as a set of at most one row
get_assumption(rows, id) == {a \in rows : a.id = id}

\* C4 as stated: creating a link whose (source, target, kind) triple is already stored
\* overwrites the strength and leaves the stored link's identifier unchanged
C4_IdentifierUnchanged ==
    [][Called("create_link") /\ last'.result = "ok" =>
        \A old \in fragment_links, new \in fragment_links' :
            SameTriple(old, new) /\ new.id = last'.id => new.id = old.id]_vars

\* C4 amended: creating a link whose (source, target, kind) triple is already stored
\* leaves one row for the triple, and that row is the new link: the strength is the new
\* one and the identifier is the new link's, the replaced row's identifier is gone
C4_Replaced ==
    [][Called("create_link") /\ last'.result = "ok" =>
        \A old \in fragment_links :
            old.id \in last'.replaced =>
                /\ old.id \notin {l.id : l \in fragment_links'}
                /\ \E new \in fragment_links' :
                    /\ new.id = last'.id
                    /\ new.id # old.id
                    /\ \A l \in fragment_links' : SameTriple(l, old) => l = new]_vars

\* a create_link call found its triple stored and replaced the row
C4_Witness ==
    /\ last.op = "create_link"
    /\ last.result = "ok"
    /\ last.replaced # {}
    /\ \E l \in fragment_links : l.id = last.id

\* C5 as stated: invalidate on a missing assumption id returns not-found and changes
\* nothing; on an existing assumption it sets Invalid and invalidated_by = fragment_id
C5_AsStated ==
    [][Called("invalidate_assumption") =>
        IF last'.id \notin AssumptionRows(assumptions)
        THEN /\ last'.result = "false"
             /\ UNCHANGED <<fragments, decisions, assumptions, fragment_links>>
        ELSE \E a \in get_assumption(assumptions', last'.id) :
                a.still_valid = 0 /\ a.invalidated_by = last'.by]_vars

\* C5 amended: invalidate on a missing assumption id returns not-found and changes
\* nothing; on an existing assumption, with a fragment id that is in the store, it
\* returns true and sets Invalid and invalidated_by = fragment_id
C5_Invalidate ==
    [][Called("invalidate_assumption") =>
        /\ last'.id \notin AssumptionRows(assumptions) =>
            /\ last'.result = "false"
            /\ UNCHANGED <<fragments, decisions, assumptions, fragment_links>>
        /\ last'.id \in AssumptionRows(assumptions) /\ ForeignKeyOk(fragments, last'.by) =>
            /\ last'.result = "true"
            /\ \E a \in get_assumption(assumptions', last'.id) :
                a.still_valid = 0 /\ a.invalidated_by = last'.by]_vars

\* an invalidate call succeeded on a stored assumption
C5_Witness ==
    /\ last.op = "invalidate_assumption"
    /\ last.result = "true"
    /\ \E a \in get_assumption(assumptions, last.id) :
        a.still_valid = 0 /\ a.invalidated_by = last.by

\* C6 as stated: in every reachable state an assumption's invalidated_by is set only if
\* its validity is Invalid
C6_InvalidatedByOnlyIfInvalid ==
    \A a \in assumptions : a.invalidated_by # NULL => a.still_valid = 0

\* C7: no store operation moves a stored assumption from Valid or Invalid to Unknown
C7_NeverBackToUnknown ==
    [][\A a \in assumptions, b \in assumptions' :
        a.id = b.id /\ a.still_valid \in {0, 1} => b.still_valid # NULL]_vars

\* the validity update to False acted on an assumption that had been invalidated
C7_Witness ==
    /\ last.op = "update_assumption_validity"
    /\ last.value = FALSE
    /\ last.result = "true"
    /\ \E a \in get_assumption(assumptions, last.id) : a.invalidated_by # NULL

\* C8 as stated: once Valid or Invalid, no lifecycle operation changes the validity
C8_Terminal ==
    [][\A a \in assumptions, b \in assumptions' :
        a.id = b.id /\ a.still_valid \in {0, 1} => b.still_valid = a.still_valid]_vars

\* C8 amended: Valid and Invalid are not terminal; a successful invalidate-assumption
\* leaves the assumption Invalid and a successful validity update leaves it at the given
\* value, whatever its validity was before
C8_Overwritten ==
    [][/\ Called("invalidate_assumption") /\ last'.result = "true" =>
            \A b \in get_assumption(assumptions', last'.id) : b.still_valid = 0
       /\ Called("update_assumption_validity") /\ last'.result = "true" =>
            \A b \in get_assumption(assumptions', last'.id) :
                b.still_valid = IF last'.value THEN 1 ELSE 0]_vars

\* an assumption that was invalidated is Valid again, by the validity update
C8_Witness ==
    /\ last.op = "update_assumption_validity"
    /\ last.value = TRUE
    /\ \E a \in get_assumption(assumptions, last.id) :
        a.still_valid = 1 /\ a.invalidated_by # NULL

\* C9 as stated: the store-level invalidate, called with a stored assumption and a
\* fragment id that is not in the store, succeeds and sets Invalid and invalidated_by
C9_Unchecked ==
    [][Called("invalidate_assumption")
        /\ last'.id \in AssumptionRows(assumptions)
        /\ ~ForeignKeyOk(fragments, last'.by) =>
            /\ last'.result = "true"
            /\ \E a \in get_assumption(assumptions', last'.id) :
                a.still_valid = 0 /\ a.invalidated_by = last'.by]_vars

\* C9 amended: the store-level invalidate makes no check of its own, but the foreign key
\* on invalidated_by does: called with a stored assumption and a fragment id that is not
\* in the store, it raises IntegrityError and leaves the assumption as it was
C9_ForeignKeyRejects ==
    [][Called("invalidate_assumption")
        /\ last'.id \in AssumptionRows(assumptions)
        /\ ~ForeignKeyOk(fragments, last'.by) =>
            /\ last'.result = "IntegrityError"
            /\ assumptions' = assumptions]_vars

\* an invalidate call on a stored assumption was rejected for its fragment id
C9_Witness ==
    /\ last.op = "invalidate_assumption"
    /\ last.result = "IntegrityError"
    /\ last.id \in AssumptionRows(assumptions)
    /\ ~ForeignKeyOk(fragments, last.by)

\* C2: after delete_fragment on a stored fragment, in the very next state, the fragment
\* cannot be fetched and no decision, assumption or link names it as owner, source or
\* target: no state has the fragment gone and a dependent still stored
C2_CascadeDelete ==
    [][Called("delete_fragment") /\ last'.result = "true" =>
        /\ get_fragment(fragments', last'.id) = {}
        /\ \A d \in decisions' : d.fragment_id # last'.id
        /\ \A a \in assumptions' : a.fragment_id # last'.id
        /\ \A l \in fragment_links' : l.source_id # last'.id /\ l.target_id # last'.id]_vars

\* a fragment that owned a decision and an assumption and was an endpoint of a link has
\* been deleted
C2_Witness ==
    /\ last.op = "delete_fragment"
    /\ last.result = "true"
    /\ last.cascaded.decisions > 0
    /\ last.cascaded.assumptions > 0
    /\ last.cascaded.links > 0

\* C17: delete_fragment returns true exactly when the fragment was stored; on an id that
\* is not stored (never created, or deleted before) it returns false, raises nothing and
\* leaves all four tables as they were
C17_DeleteReturnsExisted ==
    [][Called("delete_fragment") =>
        /\ last'.result = "true" <=> last'.id \in FragmentRows(fragments)
        /\ last'.result = "false" <=> last'.id \notin FragmentRows(fragments)
        /\ last'.id \notin FragmentRows(fragments) =>
                UNCHANGED <<fragments, decisions, assumptions, fragment_links>>]_vars

\* a fragment that was created and deleted has been deleted a second time, with other
\* rows in the store
C17_Witness ==
    /\ last.op = "delete_fragment"
    /\ last.result = "false"
    /\ last.id < nextFragmentId
    /\ fragments # {}
    /\ decisions # {} \/ assumptions # {} \/ fragment_links # {}

\* C18: delete_fragment removes no fragment but the one named, no decision or assumption
\* but those it owns and no link but those it is an endpoint of, and every row that does
\* not reference it (as owner, invalidating fragment, source or target) is unchanged
C18_DeleteFrame ==
    [][Called("delete_fragment") =>
        LET fid == last'.id IN
        /\ fragments' = {r \in fragments : r.id # fid}
        /\ decisions' = {d \in decisions : d.fragment_id # fid}
        /\ AssumptionRows(assumptions')
                = AssumptionRows({a \in assumptions : a.fragment_id # fid})
        /\ \A a \in assumptions :
                a.fragment_id # fid /\ a.invalidated_by # fid => a \in assumptions'
        /\ fragment_links'
                = {l \in fragment_links : l.source_id # fid /\ l.target_id # fid}]_vars

\* a fragment with a link has been deleted while another fragment, a decision and an
\* assumption stayed
C18_Witness ==
    /\ last.op = "delete_fragment"
    /\ last.result = "true"
    /\ last.cascaded.links > 0
    /\ fragments # {}
    /\ decisions # {}
    /\ assumptions # {}

\* ------------------------------------------------------ properties of the application
\* C3: in every reachable state every stored decision and assumption has its owning
\* fragment in the store and every stored link has both endpoints in the store
C3_ReferentialIntegrity ==
    /\ \A d \in decisions : d.fragment_id \in FragmentRows(fragments)
    /\ \A a \in assumptions : a.fragment_id \in FragmentRows(fragments)
    /\ \A l \in fragment_links :
        l.source_id \in FragmentRows(fragments) /\ l.target_id \in FragmentRows(fragments)

\* a background or request task is about to write a row for a fragment that has been
\* deleted under it, while links are stored
C3_Witness ==
    /\ fragment_links # {}
    /\ \E t \in Running :
        \/ /\ t.kind = "link"
           /\ t.pc = "loop"
           /\ \E r \in t.results : r \notin FragmentRows(fragments)
        \/ /\ t.kind = "create_fragment_link"
           /\ t.pc = "create"
           /\ t.target_id \notin FragmentRows(fragments)
        \/ /\ t.kind \in {"extract_decisions", "extract_assumptions"}
           /\ t.pc = "store"
           /\ t.fragment_id \notin FragmentRows(fragments)

\* no fragment has been deleted so far: ids are never reused
NothingDeleted == Cardinality(fragments) = nextFragmentId - 1

\* C1: under any interleaving of linking runs and manual link requests, the store holds
\* at most one link per (source, target, kind), and that row is the most recently created
\* link of the triple: a creation leaves its own row as the only one of its triple and
\* touches no other row, and no other step adds or alters a link
C1_OnePerTripleLatest ==
    /\ [](\A a, b \in fragment_links : SameTriple(a, b) => a = b)
    /\ [][IF nextLinkId' # nextLinkId
          THEN \/ fragment_links' = fragment_links
               \/ \E new \in fragment_links' :
                    /\ new.id = nextLinkId
                    /\ \A l \in fragment_links' : SameTriple(l, new) => l = new
                    /\ fragment_links' \ {new} \subseteq fragment_links
                    /\ \A l \in fragment_links \ fragment_links' : SameTriple(l, new)
          ELSE fragment_links' \subseteq fragment_links]_vars

\* two link creations, neither rejected (nothing was ever deleted), have left one row:
\* the second was for the triple of the first and replaced it
C1_Witness ==
    /\ NothingDeleted
    /\ nextLinkId = 3
    /\ \E l \in fragment_links : fragment_links = {l} /\ l.id = 2

\* the linking tasks in flight
RunningLinking(bag) == {<<t, CopiesIn(t, bag)>> : t \in {x \in BagToSet(bag) : x.kind = "link"}}

\* C10: no step of a linking run stores a link whose source and target are the same
\* fragment
C10_NoSelfLink ==
    [][RunningLinking(tasks') # RunningLinking(tasks) =>
        \A l \in fragment_links' \ fragment_links : l.source_id # l.target_id]_vars

\* a linking run whose search returned the fragment itself (it is indexed, and nothing
\* was ever deleted) has iterated over that result and goes on with the others
C10_Witness ==
    /\ NothingDeleted
    /\ \E t \in Running :
        /\ t.kind = "link"
        /\ t.pc = "loop"
        /\ t.fragment_id \in index
        /\ t.fragment_id \notin t.results
        /\ \A l \in fragment_links : l.source_id # l.target_id

\* the enrichment tasks in flight
Enrichment == {t \in Running : t.kind \in {"extract_decisions", "extract_assumptions", "link"}}

\* C16: an enrichment task (decision extraction, assumption extraction, linking) is in
\* flight only for a fragment whose row has been written (its identifier has been handed
\* out) and whose create request got as far as add_task; while the row is still stored
\* its vector is in the index
C16_TasksAfterStore ==
    \A t \in Enrichment :
        /\ t.fragment_id < nextFragmentId
        /\ request[t.fragment_id] = "scheduled"
        /\ t.fragment_id \in FragmentRows(fragments) => t.fragment_id \in index

\* an extraction task and a linking task are in flight for a stored, indexed fragment
C16_Witness ==
    \E t, u \in Enrichment :
        /\ t.kind = "extract_decisions"
        /\ u.kind = "link"
        /\ t.fragment_id = u.fragment_id
        /\ t.fragment_id \in FragmentRows(fragments)
        /\ t.fragment_id \in index

\* ------------------------------------------------------ properties of a linking run
\* the step is a linking run awaited to its end
LinkingRun == Called("link_similar_fragments_background")

\* the fragment of the run and every neighbor of its results are in the store
RunEndpointsStored ==
    /\ last'.fragment_id \in FragmentRows(fragments)
    /\ \A i \in DOMAIN last'.results :
        last'.results[i].fragment_id \in FragmentRows(fragments)

\* the rows a run has written that are in the table `rows`
WrittenBy(rows, call) == {l \in rows : l.id \in call.written}

\* C11 as stated: a linking run for F over results R (F and the neighbors stored) leaves a
\* relates_to link F -> N with strength N's similarity for every neighbor N # F whose
\* similarity exceeds 0.75, and writes no link for a neighbor whose similarity does not
\* exceed 0.75
C11_LinksExactlyAboveThreshold ==
    [][LinkingRun /\ RunEndpointsStored =>
        \A i \in DOMAIN last'.results :
            LET N == last'.results[i].fragment_id
                similarity == Similarity(last'.results[i].distance)
            IN
            N # last'.fragment_id =>
                IF similarity > SIMILARITY_THRESHOLD
                THEN \E l \in fragment_links' :
                        /\ l.source_id = last'.fragment_id
                        /\ l.target_id = N
                        /\ l.link_type = RELATES_TO
                        /\ l.strength = similarity
                ELSE \A l \in WrittenBy(fragment_links', last') : l.target_id # N]_vars

\* C13 as stated: the similarity a linking run derives from a distance in [0, 2] is
\* clamp(1 - distance, 0, 1), never negative
C13_SimilarityClamped ==
    last.op = "link_similar_fragments_background" =>
        \A i \in DOMAIN last.results :
            /\ Similarity(last.results[i].distance) >= 0
            /\ Similarity(last.results[i].distance)
                = cosine_distance_to_similarity(last.results[i].distance)

\* C14: a linking run that repeats the run before it (same fragment, same results, no
\* other call from the end of that run to the end of this one) leaves the edges (source,
\* target, kind, strength) as the first run left them, and no more rows
C14_RunIdempotent ==
    [][LinkingRun /\ last'.repeat =>
        /\ Edges(fragment_links') = last'.before.edges
        /\ Cardinality(fragment_links') = last'.before.rows]_vars

\* a run has repeated the run before it and written a link again
C14_Witness ==
    /\ last.op = "link_similar_fragments_background"
    /\ last.repeat
    /\ ~last.raised
    /\ WrittenBy(fragment_links, last) # {}

\* C12: every link a linking run writes is a relates_to link from the fragment of the run
\* with a strength from 0.75 to 1, whatever distances in [0, 2] the index reports, and a
\* neighbor whose similarity is below 0.75 gets no link
C12_PersistedLinksInRange ==
    [][LinkingRun =>
        /\ \A l \in WrittenBy(fragment_links', last') :
            /\ l.link_type = RELATES_TO
            /\ l.source_id = last'.fragment_id
            /\ l.strength >= SIMILARITY_THRESHOLD
            /\ l.strength <= 100
        /\ \A i \in DOMAIN last'.results :
            Similarity(last'.results[i].distance) < SIMILARITY_THRESHOLD =>
                \A l \in WrittenBy(fragment_links', last') :
                    l.target_id # last'.results[i].fragment_id]_vars

\* a run has written a link for one neighbor and skipped another, not the fragment
\* itself, whose similarity is below 0.75
C12_Witness ==
    /\ last.op = "link_similar_fragments_background"
    /\ WrittenBy(fragment_links, last) # {}
    /\ \E i \in DOMAIN last.results :
        /\ last.results[i].fragment_id # last.fragment_id
        /\ Similarity(last.results[i].distance) < SIMILARITY_THRESHOLD

\* ------------------------------------------------------ properties of the extractors
\* the last call was one of the two extractors
Extraction == last.op \in {"extract_decisions", "extract_assumptions"}

\* the output is not an object with a list of objects under the expected key
WrongShape(output) ==
    \/ output.kind \in {"unparseable", "not_object", "field_null", "field_text",
                       "field_empty_text"}
    \/ \E i \in DOMAIN output.candidates : output.candidates[i].shape # "object"

\* a candidate's confidence is not a number
NonNumericConfidence(output) ==
    \E i \in DOMAIN output.candidates :
        /\ output.candidates[i].shape = "object"
        /\ output.candidates[i].confidence.json # "number"

\* C19: when the provider's output is not of the expected shape (text that does not
\* parse, a value that is not an object, a list field of the wrong shape, a candidate
\* whose confidence is not a number) the extraction raises nothing and returns no items
\* with the model "unknown"
C19_ParseFailureEmpty ==
    /\ Extraction
    /\ \/ WrongShape(last.output)
       \/ last.op = "extract_decisions" /\ NonNumericConfidence(last.output)
    => /\ last.raised = "none"
       /\ last.items = <<>>
       /\ last.model = "unknown"

\* C20: with the provider unreachable the extraction raises ConnectionError and returns
\* nothing; it raises ConnectionError in no other case, and the empty result with the
\* model "unknown" is never the outcome of an unreachable provider
C20_ConnectionFailureRaised ==
    Extraction =>
        /\ last.output.kind = "unreachable" => last.raised = "ConnectionError"
        /\ last.raised = "ConnectionError" => last.output.kind = "unreachable"
        /\ last.raised = "none" /\ last.model = "unknown" =>
                last.output.kind # "unreachable"

\* an extraction has met an unreachable provider and raised
C20_Witness ==
    /\ last.op = "extract_decisions"
    /\ last.output.kind = "unreachable"
    /\ last.raised = "ConnectionError"

\* the output is an object whose list holds objects
WellFormed(output) ==
    /\ output.kind = "object"
    /\ ~WrongShape(output)

\* the candidates a filter at min_confidence lets through, in their order
AtLeast(candidates, min_confidence) ==
    SelectSeq(candidates, LAMBDA c : c.confidence.value >= min_confidence)

\* C21: given a well-formed list of candidates, extract_decisions raises nothing and
\* returns one Decision for each candidate whose confidence is at least min_confidence
\* and for no other, in the order of the candidates, with the candidate's "what" (the
\* empty text included) and confidence and the fragment of the call
C21_KeepsAtLeastMinConfidence ==
    /\ last.op = "extract_decisions"
    /\ WellFormed(last.output)
    /\ ~NonNumericConfidence(last.output)
    => LET kept == AtLeast(last.output.candidates, last.min_confidence) IN
       /\ last.raised = "none"
       /\ Len(last.items) = Len(kept)
       /\ \A i \in DOMAIN kept :
            /\ last.items[i].what = str(kept[i].what)
            /\ last.items[i].confidence = kept[i].confidence.value
            /\ last.items[i].fragment_id = last.fragment_id

\* an extraction has kept two candidates in their order, the first with an empty "what"
\* and a confidence equal to min_confidence
C21_Witness ==
    /\ last.op = "extract_decisions"
    /\ Len(last.output.candidates) = 2
    /\ Len(last.items) = 2
    /\ last.items[1].what = ""
    /\ last.items[1].confidence = last.min_confidence
    /\ last.items[2].what = "x"

\* the candidates whose statement is not the empty text, in their order
NonEmpty(candidates) ==
    SelectSeq(candidates, LAMBDA c : c.statement # [json |-> "text", value |-> ""])

\* C22: given a well-formed list of candidates, extract_assumptions raises nothing and
\* returns one Assumption for each candidate whose statement is not the empty text and
\* for no other, in the order of the candidates, each with still_valid None (validity
\* Unknown) and invalidated_by None
C22_KeepsNonEmptyUnknown ==
    /\ last.op = "extract_assumptions"
    /\ WellFormed(last.output)
    => LET kept == NonEmpty(last.output.candidates) IN
       /\ last.raised = "none"
       /\ Len(last.items) = Len(kept)
       /\ \A i \in DOMAIN kept :
            /\ last.items[i].statement = str(kept[i].statement)
            /\ last.items[i].fragment_id = last.fragment_id
            /\ last.items[i].still_valid = NULL
            /\ last.items[i].invalidated_by = NULL

\* an extraction has dropped a candidate with an empty statement and kept the next
C22_Witness ==
    /\ last.op = "extract_assumptions"
    /\ Len(last.output.candidates) = 2
    /\ last.output.candidates[1].statement = [json |-> "text", value |-> ""]
    /\ Len(last.items) = 1
    /\ last.items[1].statement = "x"
    /\ last.items[1].still_valid = NULL

\* ------------------------------------------------------ properties of the background tasks
BackgroundOps ==
    {"extract_decisions_background", "extract_assumptions_background",
     "link_similar_fragments_background"}

\* C15: a background task (decision extraction, assumption extraction, linking) returns
\* without raising whatever happened in its body (nothing, a parse failure, a connection
\* failure, a store failure), and leaves the fragments table as it was
C15_TaskErrorsSwallowed ==
    [][last' # last /\ last'.op \in BackgroundOps =>
        /\ last'.result = "returned"
        /\ fragments' = fragments]_vars

\* a task for a stored fragment has met an unreachable provider and returned
C15_Witness ==
    /\ last.op = "extract_decisions_background"
    /\ last.fragment_id \in FragmentRows(fragments)
    /\ last.raised = "ConnectionError"
    /\ last.result = "returned"

\* ------------------------------------------------------ properties of the embedding cache
\* a call of the cache method `op` has been made
CacheCall(op) ==
    /\ last'.op = op
    /\ <<last, embedding_cache>>' # <<last, embedding_cache>>

\* C23: when a set drops an entry from the cache, the entry is the least recently used
\* one, a get that hits and a set (of a new or of a cached key) each counting as a use
C23_EvictsLeastRecentlyUsed ==
    [][CacheCall("set") /\ last'.evicted # {} => last'.evicted = {Head(recency)}]_vars

\* C24: the cache never holds more than max_size entries
C24_SizeBounded == size(embedding_cache) <= MaxCacheSize

\* a set into a full cache has evicted an entry, and the cache is full
C24_Witness ==
    /\ last.op = "set"
    /\ last.evicted # {}
    /\ size(embedding_cache) = MaxCacheSize

\* C25: a set under one (model, text) pair changes what get returns for no other pair,
\* except that it may evict it: a vector put under one pair is never returned for another
C25_PairsNeverShare ==
    [][CacheCall("set") =>
        \A text \in CacheTexts, model \in CacheModels :
            <<model, text>> # <<last'.model, last'.text>> =>
                get(embedding_cache', text, model).result
                    \in {get(embedding_cache, text, model).result, NULL}]_vars

\* C26: an embed that returns, returns the provider's vector for the text, on the
\* service with a cache (whatever was embedded, read or cleared before or meanwhile) as
\* on the service without one; the provider is called on every call without a cache and
\* on every miss with one
C26_CacheTransparent ==
    last.op = "embed" /\ last.raised = "none" =>
        /\ last.vector = Provider(last.text)
        /\ last.provider_called = ~last.cached
        /\ ~last.cache_enabled => ~last.cached

\* embed has answered from the cache while another text is cached too
C26_Witness ==
    /\ last.op = "embed"
    /\ last.cached
    /\ size(embedding_cache) = MaxCacheSize

\* ------------------------------------------------------ properties of the queries
\* the stored row of fragment fid
FragmentRow(fid) == CHOOSE r \in fragments : r.id = fid

\* the tuple a link owes to a query about fragment fid: the fragment at its other end,
\* its strength and its kind
Owed(l, fid) ==
    [fragment |-> FragmentRow(IF l.source_id = fid THEN l.target_id ELSE l.source_id),
     strength |-> l.strength, link_type |-> l.link_type]

\* `result` holds exactly one tuple for each link of `links`, and is sorted by strength
\* descending
AnswersFor(result, links, fid) ==
    /\ Len(result) = Cardinality(links)
    /\ \A l \in links :
        Cardinality({i \in DOMAIN result : result[i] = Owed(l, fid)})
            = Cardinality({m \in links : Owed(m, fid) = Owed(l, fid)})
    /\ \A i, j \in DOMAIN result : i < j => result[i].strength >= result[j].strength

\* the stored links with fid as source or target, of the kind of the filter if one is given
Touching(fid, link_type) ==
    {l \in fragment_links :
        /\ l.source_id = fid \/ l.target_id = fid
        /\ link_type # <<>> => l.link_type = link_type[1]}

\* C27 as stated: get_related_fragments returns one tuple for every stored link with the
\* fragment as source or target (of the given kind when a kind is given), holding the
\* fragment at the other end, the strength and the kind, nothing else, by strength
\* descending
C27_EveryLink ==
    [][Called("get_related_fragments") =>
        AnswersFor(last'.result, Touching(last'.fragment_id, last'.link_type),
                   last'.fragment_id)]_vars

\* C27, amended: the same for every stored link between the fragment and another
\* fragment; a link from the fragment to itself is not returned
C27_EveryLinkToAnother ==
    [][Called("get_related_fragments") =>
        AnswersFor(last'.result,
                   {l \in Touching(last'.fragment_id, last'.link_type) :
                        l.source_id # l.target_id},
                   last'.fragment_id)]_vars

\* a query has returned two fragments, one over a link to the fragment and one over a
\* link from it, the stronger first
C27_Witness ==
    /\ last.op = "get_related_fragments"
    /\ Len(last.result) = 2
    /\ last.result[1].strength > last.result[2].strength
    /\ \E l, m \in fragment_links :
        /\ l.source_id = last.fragment_id
        /\ m.target_id = last.fragment_id
        /\ l.source_id # l.target_id
        /\ m.source_id # m.target_id

\* the elements of a list
Range(list) == {list[i] : i \in DOMAIN list}

\* the stored assumptions that pass the fragment and project filters of the last call
PassOtherFilters ==
    {a \in assumptions :
        /\ last.fragment_id # NULL => a.fragment_id = last.fragment_id
        /\ last.project # NULL =>
                \E f \in fragments : f.id = a.fragment_id /\ f.project = last.project}

\* C28: list_assumptions with valid_only returns only assumptions that are Valid or
\* Unknown, with invalid_only only Invalid ones, and in each case all of those that pass
\* the other filters, up to the limit, each once
C28_ValidityFilters ==
    last.op = "list_assumptions" =>
        LET wanted == {a \in PassOtherFilters :
                        /\ last.valid_only => a.still_valid # 0
                        /\ last.invalid_only => a.still_valid = 0}
        IN
        /\ Range(last.result) \subseteq wanted
        /\ Len(last.result) = Cardinality(Range(last.result))
        /\ Len(last.result) = Min(last.limit, Cardinality(wanted))

\* a valid_only listing of a project has returned an Unknown assumption while an Invalid
\* one is stored
C28_Witness ==
    /\ last.op = "list_assumptions"
    /\ last.valid_only
    /\ ~last.invalid_only
    /\ last.project = 1
    /\ \E a \in assumptions : a.still_valid = 0
    /\ \E i \in DOMAIN last.result : last.result[i].still_valid = NULL

\* ------------------------------------------------------ properties of the routes
\* the responses that reject a request
Rejected ==
    /\ last.op \in {"route create_fragment_link", "route invalidate_assumption"}
    /\ last.status \in {400, 404}

\* C29: a link-creation or invalidation request that is rejected has changed no table
C29_RejectedWritesNothing == Rejected => ~last.wrote

\* ------------------------------------------------------ properties of repeated runs
\* two runs of the same task for the same fragment, the provider having answered the
\* same, both ended without an error
Twice(t1, t2) ==
    /\ t1 # t2
    /\ t1.kind = t2.kind
    /\ t1.fragment_id = t2.fragment_id
    /\ t1.output = t2.output
    /\ t1.pc = "done" /\ t2.pc = "done"
    /\ t1.raised = "none" /\ t2.raised = "none"

\* the rows of the table a run writes to
TableOf(t) ==
    IF t.kind = "extract_decisions_background" THEN decisions ELSE assumptions

\* the row of the table a run writes to that holds the object `item`
RowOf(t, item) ==
    IF t.kind = "extract_decisions_background" THEN DecisionColumns(item)
    ELSE AssumptionColumns(item)

\* C30: when an extraction has run twice for one fragment with the same provider
\* output, one run after the other or both at once, every kept candidate is stored
\* twice, in two rows with different identifiers
C30_StoredTwice ==
    \A t1, t2 \in Running :
        Twice(t1, t2) =>
            /\ Len(t1.items) = Len(t2.items)
            /\ \A i \in DOMAIN t1.items :
                /\ RowOf(t1, t1.items[i]) \in TableOf(t1)
                /\ RowOf(t2, t2.items[i]) \in TableOf(t2)
                /\ t1.items[i].id # t2.items[i].id
                /\ [t1.items[i] EXCEPT !.id = 0] = [t2.items[i] EXCEPT !.id = 0]

\* two runs at once have stored the same decision
C30_Witness ==
    \E t1, t2 \in Running :
        /\ Twice(t1, t2)
        /\ t1.kind = "extract_decisions_background"
        /\ t1.items # <<>>
        /\ t2.overlapped

\* ------------------------------------------------------ properties of the invalidate race
\* C31: however the invalidate route (its check that the invalidating fragment exists,
\* then its update) is interleaved with deletions of that fragment, no stored assumption
\* has an invalidated_by that names a fragment that is not stored
C31_InvalidatorStored ==
    \A a \in assumptions :
        a.invalidated_by # NULL => a.invalidated_by \in FragmentRows(fragments)

\* the invalidating fragment was deleted between the route's check and its update of a
\* stored assumption: the update raised
C31_Witness ==
    /\ last.op = "route invalidate_assumption"
    /\ last.status = 500
    /\ \E a \in assumptions : a.invalidated_by = NULL

\* ------------------------------------------------------ properties of update_fragment
\* two update requests for one stored fragment have ended, one that gave only a project
\* and one that gave only a summary, and no other request has been made
TwoFields(t1, t2) ==
    /\ t1.pc = "done" /\ t2.pc = "done"
    /\ t1.fragment.id = t2.fragment.id
    /\ t1.project # NULL /\ t1.summary = NULL
    /\ t2.project = NULL /\ t2.summary # NULL
    /\ t1.fragment.id \in FragmentRows(fragments)

\* C32: when an update of a fragment's project and an update of its summary have both
\* ended, whether one ran after the other or both at once, the stored fragment holds
\* both changes
C32_BothChangesPresent ==
    \A t1, t2 \in Running :
        TwoFields(t1, t2) =>
            \A f \in get_fragment(fragments, t1.fragment.id) :
                f.project = t1.project /\ f.summary = t2.summary

\* ------------------------------------------------------ properties of a failed embedding
\* the awaited provider call of the create request of fragment f fails in this step:
\* the provider was not reached, and the request ends with the exception it raised
EmbedRaises(f) == request[f] = "embedding" /\ request'[f] \in {"503 embed", "500 embed"}

\* C33: when the embedding provider call of a create request fails with a connection
\* error, the request is answered 503 (service unavailable) and that step writes
\* nothing: the row stored before stays as it is, nothing is added to the vector index
\* and no task is started; and never after is the fragment's vector in the index or an
\* enrichment task in flight for it
C33_EmbeddingUnavailable ==
    /\ [][\A f \in FragmentIds :
            EmbedRaises(f) =>
                /\ request'[f] = "503 embed"
                /\ UNCHANGED <<Tables, index, tasks>>]_vars
    /\ [](\A f \in FragmentIds :
            request[f] \in {"503 embed", "500 embed"} =>
                /\ f \notin index
                /\ \A t \in Enrichment : t.fragment_id # f)

\* ------------------------------------------------------ properties of a deleted invalidator
\* C34: when delete_fragment deletes a fragment that an assumption of another fragment
\* names as its invalidator, the assumption is kept, its invalidated_by becomes NULL and
\* its validity is what it was: an Invalid assumption stays Invalid
C34_InvalidatorSetNull ==
    [][Called("delete_fragment") =>
        \A a \in assumptions :
            a.invalidated_by = last'.id /\ a.fragment_id # last'.id =>
                /\ [a EXCEPT !.invalidated_by = NULL] \in assumptions'
                /\ \A b \in assumptions' : b.id = a.id => b.still_valid = a.still_valid]_vars

\* the invalidator of an assumption has been deleted; the assumption is stored, Invalid,
\* with no invalidator
C34_Witness ==
    /\ last.op = "delete_fragment"
    /\ last.cascaded.invalidated > 0
    /\ \E a \in assumptions : a.still_valid = 0 /\ a.invalidated_by = NULL

\* ------------------------------------------------------ properties of a failed linking run
\* the links of the table `rows` from source_id to target_id of kind relates_to
RelatesTo(rows, source_id, target_id) ==
    {l \in rows : /\ l.source_id = source_id
                  /\ l.target_id = target_id
                  /\ l.link_type = RELATES_TO}

\* the run that ends in this step tries to link result i and an end of that link is
\* not stored
FailsAt(i) ==
    /\ ShouldLink(last'.fragment_id, last'.results[i])
    /\ \/ last'.fragment_id \notin FragmentRows(fragments)
       \/ last'.results[i].fragment_id \notin FragmentRows(fragments)

\* C35: a linking run stores its links one neighbor at a time, in the order of the
\* results: a run ends with an exception at the first neighbor whose link cannot be
\* stored because an end of it is not in the store; the links the run stored for the
\* neighbors before it are in the table as long as both their ends are, and the run
\* has stored no link for that neighbor or for any neighbor after it
C35_StopsAtFirstFailure ==
    [][LinkingRun /\ last'.raised /\ last'.results # <<>> =>
        LET k == last'.failed_at IN
        /\ k \in DOMAIN last'.results
        /\ FailsAt(k)
        /\ \A j \in 1..(k - 1) :
            /\ ShouldLink(last'.fragment_id, last'.results[j])
            /\ last'.results[j].fragment_id \in FragmentRows(fragments)
            /\ last'.fragment_id \in FragmentRows(fragments)
            => \E l \in WrittenBy(RelatesTo(fragment_links', last'.fragment_id,
                                            last'.results[j].fragment_id), last') :
                    l.strength = Similarity(last'.results[j].distance)
        /\ \A j \in k..Len(last'.results) :
            WrittenBy(RelatesTo(fragment_links', last'.fragment_id,
                                last'.results[j].fragment_id), last') = {}]_vars

\* a run has stored the link of its first neighbor, which is in the table, and failed
\* on the second, whose fragment is not stored
C35_Witness ==
    /\ last.op = "link_similar_fragments_background"
    /\ last.raised
    /\ last.failed_at = 2
    /\ \E l \in WrittenBy(fragment_links, last) :
        l.target_id = last.results[1].fragment_id
    /\ last.results[2].fragment_id \notin FragmentRows(fragments)

\* request t of route update_fragment calls db.update_fragment in this step
UpdateWrites(t) ==
    /\ t.kind = "route update_fragment"
    /\ t.pc = "update"
    /\ CopiesIn(t, tasks') < CopiesIn(t, tasks)

\* C36: update_fragment creates no record: called for an id that is not in the store,
\* by an update request whose fragment was deleted after the request read it, it leaves
\* every table as it is; and no call of it adds or removes a fragment
C36_UpdateCreatesNothing ==
    [][\A t \in Running :
        UpdateWrites(t) =>
            /\ FragmentRows(fragments') = FragmentRows(fragments)
            /\ t.fragment.id \notin FragmentRows(fragments) => UNCHANGED Tables]_vars

\* an update request has written after its fragment was deleted, and the fragment is
\* not stored
C36_Witness ==
    \E t \in Running :
        /\ t.kind = "route update_fragment"
        /\ t.pc = "done"
        /\ t.rowcount = 0
        /\ t.project # NULL
        /\ t.fragment.id \notin FragmentRows(fragments)

\* ------------------------------------------------------ properties of the project filter
\* this step lists the decisions, or the assumptions, of one project, with no other
\* filter and a limit that cuts nothing
ListsProject ==
    /\ Called("list_decisions") \/ Called("list_assumptions")
    /\ last'.project # NULL
    /\ last'.fragment_id = NULL
    /\ last'.limit = 100
    /\ last'.op = "list_assumptions" => ~last'.valid_only /\ ~last'.invalid_only

\* the row with this id is in the list
ListedIn(result, id) == \E i \in DOMAIN result : result[i].id = id

\* C37: a listing by project follows the owning fragment's current project: right after
\* update_fragment has set the project of a stored fragment, its decisions and
\* assumptions are listed under the project it was given and under no other
C37_ListsByCurrentProject ==
    [][/\ last.op = "update_fragment"
       /\ last.id \in FragmentRows(fragments)
       /\ last.project # NULL
       /\ ListsProject
       => \A r \in IF last'.op = "list_decisions" THEN decisions ELSE assumptions :
            r.fragment_id = last.id =>
                (ListedIn(last'.result, r.id) <=> last'.project = last.project)]_vars

\* the assumption of a fragment that update_fragment has moved to project 2 is listed
\* under project 2
C37_Witness ==
    /\ last.op = "list_assumptions"
    /\ last.project = 2
    /\ last.result # <<>>
    /\ decisions # {}

\* ------------------------------------------------------ properties of the cached service
\* this step ends an embed of the service with a cache, which returns a result
EmbedsCached ==
    /\ last' # last
    /\ last'.op = "embed"
    /\ last'.cache_enabled
    /\ last'.raised = "none"

\* the call of the provider for one text that this step begins, if it begins one
ProviderCalls == {t \in BagToSet(tasks') : t.kind = "embed" /\ tasks' = Spawn(tasks, t)}

\* C38: on the service with a cache, an embed calls the provider only when the key of
\* its text is not cached; an embed that answers from the cache returns the vector
\* stored under the key, flagged cached, with no call of the provider and the entries
\* left as they were; an embed whose provider answers ends the one call it made, returns
\* the provider's vector flagged not cached and leaves it stored under the key
C38_ProviderOnlyOnMiss ==
    [][/\ \A t \in ProviderCalls :
            _hash_text(t.text, EMBED_MODEL) \notin Keys(embedding_cache)
       /\ EmbedsCached =>
            LET key == _hash_text(last'.text, EMBED_MODEL) IN
            IF last'.cached
            THEN /\ key \in Keys(embedding_cache)
                 /\ last'.vector = embedding_cache._cache[key]
                 /\ ~last'.provider_called
                 /\ embedding_cache'._cache = embedding_cache._cache
                 /\ tasks' = tasks
            ELSE /\ last'.provider_called
                 /\ tasks = Spawn(tasks', [kind |-> "embed", text |-> last'.text])
                 /\ last'.vector = Provider(last'.text)
                 /\ key \in Keys(embedding_cache')
                 /\ embedding_cache'._cache[key] = last'.vector]_vars

\* an embed has answered from the cache with the vector stored under its text, while
\* another embed of the same text is waiting for the provider it called before the
\* entry was there
C38_Witness ==
    /\ last.op = "embed"
    /\ last.cache_enabled
    /\ last.cached
    /\ ~last.provider_called
    /\ embedding_cache._cache[_hash_text(last.text, EMBED_MODEL)] = last.vector
    /\ [kind |-> "embed", text |-> last.text] \in Running

\* ------------------------------------------------------ properties of the access order
\* C39: the access order of the cache holds exactly the keys of its dict, each of them
\* once
C39_OrderMatchesKeys ==
    /\ Range(embedding_cache._access_order) = Keys(embedding_cache)
    /\ Len(embedding_cache._access_order) = size(embedding_cache)

====
